---- MODULE Spec2Model ----
(***************************************************************************)
(* Model of pacifica's filesystem-routing compiler:                        *)
(*   common/routes.ts    filename grammar and Route Config builder         *)
(*   server/manifest.ts  Manifest builder and merge                        *)
(*   server/file-tree.ts directory walk (shape of the Filesystem Tree)     *)
(*   vite/plugin-pacifica.ts  matchRoute                                   *)
(*                                                                         *)
(* Strings are TLA+ strings; an optional value (undefined | x) is the      *)
(* sequence <<>> | <<x>>; a thrown Error(msg) is the record                *)
(* [kind |-> "error", msg |-> msg], which every caller propagates.         *)
(* A JS object used as a map is the sequence of its [key, val] entries in  *)
(* the order Object.entries enumerates them: the array-index keys in       *)
(* ascending numeric order, then the other keys in insertion order; an     *)
(* undefined map is <<>>.                                                  *)
(***************************************************************************)
EXTENDS Integers, Sequences, FiniteSets, TLC

VARIABLES pc, tree, parsed, urlPath, urlSegment, config, manifest, segments,
          match, left, right, merged,
          received, returned,
          options, disk, events, routeState, tasks, queue, reads, writer

\* the Route State a builder call received, read before and after the call
callVars == <<received, returned>>

\* the dev server: the plugin's options, what is at the routes path, the
\* paths that changed there and that the watcher has not reported yet, the
\* plugin's cached route state, the handlers called so far, the handlers
\* whose continuation is in the microtask queue, and (for the properties
\* only) how many changes of the routes directory each directory listing
\* was read after and which handler wrote the cache
serverVars == <<options, disk, events, routeState, tasks, queue, reads, writer>>

vars == <<pc, tree, parsed, urlPath, urlSegment, config, manifest, segments,
          match, left, right, merged, callVars, serverVars>>

\* ------------------------------------------------------------------------
\* Values
\* ------------------------------------------------------------------------
None == <<>>
Some(x) == <<x>>
Null == [kind |-> "null"]
Err(m) == [kind |-> "error", msg |-> m]
IsErr(r) == r.kind = "error"
Ok(v) == [kind |-> "ok", val |-> v]

\* a thrown Error passes through every caller: r when r is an Error,
\* the rest of the computation applied to r otherwise
Try(r, F(_)) == IF IsErr(r) THEN r ELSE F(r)

\* const x = ...; the rest of the computation applied to x
Const(x, F(_)) == F(x)

\* ------------------------------------------------------------------------
\* String primitives (String.prototype / RegExp building blocks)
\* ------------------------------------------------------------------------
Ch(s, i) == SubSeq(s, i, i)

StartsWith(s, p) == Len(s) >= Len(p) /\ SubSeq(s, 1, Len(p)) = p

EndsWith(s, p) == Len(s) >= Len(p) /\ SubSeq(s, Len(s) - Len(p) + 1, Len(s)) = p

\* s.slice(from - 1): the suffix starting at 1-based index from
SliceFrom(s, from) == SubSeq(s, from, Len(s))

\* first index >= from whose character is in cs, or Len(s) + 1
FirstIn(s, cs, from) ==
  IF \E i \in from..Len(s) : Ch(s, i) \in cs
  THEN CHOOSE i \in from..Len(s) :
         /\ Ch(s, i) \in cs
         /\ \A j \in from..(i - 1) : Ch(s, j) \notin cs
  ELSE Len(s) + 1

\* the line terminators, which "." of a RegExp without the s flag does not
\* match (U+2028 and U+2029 are treated by the code like the two here)
LineTerminators == {"\n", "\r"}

\* (\..*)?$ at index d: the end of the filename, or a "." with no line
\* terminator from there to the end
ExtensionAt(s, d) ==
  \/ d = Len(s) + 1
  \/ /\ d <= Len(s)
     /\ Ch(s, d) = "."
     /\ FirstIn(s, LineTerminators, d) = Len(s) + 1

\* Array.prototype.join
RECURSIVE Join(_, _)
Join(parts, sep) ==
  IF Len(parts) = 0 THEN ""
  ELSE IF Len(parts) = 1 THEN parts[1]
  ELSE parts[1] \o sep \o Join(Tail(parts), sep)

\* ------------------------------------------------------------------------
\* routes.ts: filename grammar
\* ------------------------------------------------------------------------

\* SEGMENT_REGEX = /^([^.()]+)(\..*)?$/
parseSegmentName(filename) ==
  LET p == FirstIn(filename, {".", "(", ")"}, 1) IN
  IF p >= 2 /\ ExtensionAt(filename, p)
  THEN Some([name |-> SubSeq(filename, 1, p - 1),
             extension |-> IF p <= Len(filename)
                           THEN Some(SliceFrom(filename, p)) ELSE None])
  ELSE None

\* ESCAPED_REGEX = /^([^()]+)\(([^)]+)\)(\..*)?$/
parseEscapedRoute(filename) ==
  LET p == FirstIn(filename, {"(", ")"}, 1)
      q == FirstIn(filename, {")"}, p + 1)
  IN IF /\ p >= 2
        /\ p <= Len(filename)
        /\ Ch(filename, p) = "("
        /\ q <= Len(filename)
        /\ q >= p + 2
        /\ ExtensionAt(filename, q + 1)
     THEN Some([segment |-> SubSeq(filename, 1, p - 1),
                group |-> SubSeq(filename, p + 1, q - 1)])
     ELSE None

\* GROUP_REGEX = /^\(([^.]+)\)(\..*)?$/
parseGroupName(filename) ==
  LET d == FirstIn(filename, {"."}, 2) IN
  IF /\ StartsWith(filename, "(") /\ d >= 4 /\ Ch(filename, d - 1) = ")"
     /\ ExtensionAt(filename, d)
  THEN Some(SubSeq(filename, 2, d - 2))
  ELSE None

\* SLOT_REGEX = /^@([^.]+)(\..*)?$/
parseSlotName(filename) ==
  LET d == FirstIn(filename, {"."}, 2) IN
  IF StartsWith(filename, "@") /\ d >= 3 /\ ExtensionAt(filename, d)
  THEN Some(SubSeq(filename, 2, d - 1))
  ELSE None

\* FALLBACK_REGEX = /^\*([^.]+)(\..*)?$/
parseFallbackName(filename) ==
  LET d == FirstIn(filename, {"."}, 2) IN
  IF StartsWith(filename, "*") /\ d >= 3 /\ ExtensionAt(filename, d)
  THEN Some(SubSeq(filename, 2, d - 1))
  ELSE None

\* OPTIONAL_PARAM_REGEX = /^\[\[([^.]+)\]\](\..*)?$/
parseOptionalParamName(filename) ==
  LET d == FirstIn(filename, {"."}, 3) IN
  IF /\ StartsWith(filename, "[[") /\ d >= 6 /\ SubSeq(filename, d - 2, d - 1) = "]]"
     /\ ExtensionAt(filename, d)
  THEN Some([type |-> "optional", name |-> SubSeq(filename, 3, d - 3)])
  ELSE None

\* REQUIRED_PARAM_REGEX = /^\[([^.]+)\](\..*)?$/
parseRequiredParamName(filename) ==
  LET d == FirstIn(filename, {"."}, 2) IN
  IF /\ StartsWith(filename, "[") /\ d >= 4 /\ Ch(filename, d - 1) = "]"
     /\ ExtensionAt(filename, d)
  THEN Some([type |-> "required", name |-> SubSeq(filename, 2, d - 2)])
  ELSE None

\* CATCH_ALL_REGEX = /^\[\.\.\.([^.]+)\](\..*)?$/
parseCatchAllParamName(filename) ==
  LET d == FirstIn(filename, {"."}, 5) IN
  IF /\ StartsWith(filename, "[...") /\ d >= 7 /\ Ch(filename, d - 1) = "]"
     /\ ExtensionAt(filename, d)
  THEN Some([type |-> "catch-all", name |-> SubSeq(filename, 5, d - 2)])
  ELSE None

parseParam(filename) ==
  IF parseOptionalParamName(filename) # None THEN parseOptionalParamName(filename)
  ELSE IF parseRequiredParamName(filename) # None THEN parseRequiredParamName(filename)
  ELSE parseCatchAllParamName(filename)

parseInterceptType(type) ==
  CASE type = "(.)" -> "."
    [] type = "(..)" -> ".."
    [] type = "(..)(..)" -> "../.."
    [] type = "(...)" -> "..."

\* INTERCEPT_REGEX = /^(\(\.\)|\(\.\.\)|\(\.\.\)\(\.\.\)|\(\.\.\.\))([^()]+)$/
\* the alternatives are tried in order; the rest must be non-empty and free
\* of parentheses up to the end of the filename
InterceptPrefixes == <<"(.)", "(..)", "(..)(..)", "(...)">>

parseIntercept(filename) ==
  LET Matches(i) ==
        /\ StartsWith(filename, InterceptPrefixes[i])
        /\ Len(filename) > Len(InterceptPrefixes[i])
        /\ FirstIn(filename, {"(", ")"}, Len(InterceptPrefixes[i]) + 1)
             = Len(filename) + 1
  IN IF \E i \in 1..4 : Matches(i)
     THEN LET i == CHOOSE i \in 1..4 : Matches(i) /\ \A j \in 1..(i - 1) : ~Matches(j)
          IN Some([type |-> parseInterceptType(InterceptPrefixes[i]),
                   filename |-> SliceFrom(filename, Len(InterceptPrefixes[i]) + 1)])
     ELSE None

isLayout(t) ==
  /\ t.kind = "file"
  /\ StartsWith(t.filename, "_")
  /\ ~StartsWith(t.filename, "__")

isScript(t) ==
  /\ t.kind = "file"
  /\ (EndsWith(t.filename, ".script.ts") \/ EndsWith(t.filename, ".script.tsx"))

parseRouteName(t) ==
  IF isLayout(t) THEN Err("unexpected layout")
  ELSE IF parseGroupName(t.filename) # None
    THEN [kind |-> "group", name |-> parseGroupName(t.filename)[1], tree |-> t]
  ELSE IF parseSlotName(t.filename) # None
    THEN [kind |-> "slot", name |-> parseSlotName(t.filename)[1], tree |-> t]
  ELSE IF parseFallbackName(t.filename) # None
    THEN [kind |-> "fallback", name |-> parseFallbackName(t.filename)[1], tree |-> t]
  ELSE
    LET intercept == parseIntercept(t.filename)
        filename == IF intercept # None THEN intercept[1].filename ELSE t.filename
        param == parseParam(filename)
        escaped == parseEscapedRoute(filename)
        segmentName == parseSegmentName(filename)
        extension == IF segmentName # None THEN segmentName[1].extension ELSE None
        name == IF param # None THEN Some(param[1].name)
                ELSE IF escaped # None THEN Some(escaped[1].segment)
                ELSE IF segmentName # None THEN Some(segmentName[1].name)
                ELSE None
    IN IF name = None THEN Err("invalid segment name")
       ELSE [kind |-> "segment",
             name |-> name[1],
             param |-> IF param # None THEN Some(param[1].type) ELSE None,
             intercept |-> IF intercept # None THEN Some(intercept[1].type) ELSE None,
             tree |-> t,
             extension |-> extension]

getParamName(routeName) ==
  IF routeName.kind = "segment" /\ routeName.param # None
  THEN Some(routeName.name) ELSE None

getSegmentPath(routeName) ==
  IF routeName.param = Some("required") THEN "/:" \o routeName.name
  ELSE IF routeName.param = Some("optional") THEN "/:" \o routeName.name \o "?"
  ELSE IF routeName.param = Some("catch-all") THEN "/*" \o routeName.name
  ELSE "/" \o routeName.name

getRoutePath(routeName) ==
  CASE routeName.kind = "segment" -> Some(getSegmentPath(routeName))
    [] routeName.kind = "group" -> None
    [] routeName.kind = "slot" -> Some("/@" \o routeName.name)
    [] routeName.kind = "fallback" -> Some("/^" \o routeName.name)

\* ------------------------------------------------------------------------
\* manifest.ts: getSegmentFromPath
\* ------------------------------------------------------------------------
getSegmentFromPath(path) ==
  IF path = "/" THEN "/"
  ELSE IF StartsWith(path, "/:")
    THEN IF EndsWith(path, "?") THEN "?" ELSE "*"
  ELSE IF StartsWith(path, "/*") THEN "**"
  ELSE SliceFrom(path, 2)

\* ------------------------------------------------------------------------
\* file-tree.ts: readFileTree
\* What is on disk at a path is given by its shape: File(name),
\* Dir(name, kids) with kids in readdir order, or Missing(name) when nothing
\* is there.  walk computes filename and src (the path relative to the
\* root, "" for the root itself).  These operators read a disk that does
\* not change during the call; the dev server's specification below takes
\* the same walk one await at a time.
\* ------------------------------------------------------------------------
File(name) == [kind |-> "file", name |-> name]
Dir(name, kids) == [kind |-> "dir", name |-> name, kids |-> kids]
Missing(name) == [kind |-> "missing", name |-> name]

\* fs.stat(path): rejects with ENOENT when nothing is at the path
stat(entry) ==
  IF entry.kind = "missing" THEN Err("ENOENT")
  ELSE [kind |-> "stats", isDirectory |-> entry.kind = "dir"]

\* path.relative(rootPath, path.join(srcPath, child))
relative(parentSrc, child) ==
  IF parentSrc = "" THEN child ELSE parentSrc \o "/" \o child

\* file-tree.ts:44-51 with walkDir and walkFile; the first child whose walk
\* rejects ends the loop of walkDir (an entry that readdir listed is Missing
\* only when it was removed in between)
RECURSIVE walk(_, _)
walk(entry, src) ==
  Try(stat(entry), LAMBDA stats :
    IF stats.isDirectory
    THEN Const([i \in 1..Len(entry.kids) |->
                  walk(entry.kids[i], relative(src, entry.kids[i].name))],
               LAMBDA children :
           IF \E i \in 1..Len(children) : IsErr(children[i])
           THEN children[CHOOSE i \in 1..Len(children) :
                           /\ IsErr(children[i])
                           /\ \A j \in 1..(i - 1) : ~IsErr(children[j])]
           ELSE [kind |-> "dir", filename |-> entry.name, src |-> src,
                 children |-> children])
    ELSE [kind |-> "file", filename |-> entry.name, src |-> src])

\* file-tree.ts:22-24, then walkDir(rootPath)
readFileTree(root) ==
  Try(stat(root), LAMBDA stats :
    IF ~stats.isDirectory THEN Err("not a directory")
    ELSE walk(root, ""))

\* ------------------------------------------------------------------------
\* routes.ts: Route Config builder
\* RouteConfigPage = [kind "page", intercept, path, param, file]
\* RouteConfigNode = [kind "node", intercept, path, param, layout, scripts,
\*                    children]
\* (kind is the model's tag for `"file" in config` / `"children" in config`)
\* ------------------------------------------------------------------------

isIndex(child) ==
  IF child.kind = "dir" THEN Ok(FALSE)
  ELSE IF isLayout(child) THEN Ok(FALSE)
  ELSE Try(parseRouteName(child), LAMBDA childRouteName :
         IF childRouteName.kind = "segment"
           THEN Ok(childRouteName.name = "index")
         ELSE IF childRouteName.kind = "group" THEN Ok(TRUE)
         ELSE Ok(FALSE))

\* routes.ts:121-128, the loop that finds the index route; from child i on,
\* with indexTree found so far
RECURSIVE findIndexTree(_, _, _)
findIndexTree(children, i, indexTree) ==
  IF i > Len(children) THEN Ok(indexTree)
  ELSE Try(isIndex(children[i]), LAMBDA r :
         IF r.val
           THEN IF indexTree # None THEN Err("multiple index routes")
                ELSE findIndexTree(children, i + 1, Some(children[i]))
         ELSE findIndexTree(children, i + 1, indexTree))

RECURSIVE getCollapsedGroups(_, _)
RECURSIVE collapseChildren(_, _)
getCollapsedGroups(t, routeName) ==
  IF t.kind # "dir" \/ routeName.kind # "group"
  THEN Ok(<<[tree |-> t, routeName |-> routeName]>>)
  ELSE collapseChildren(t.children, 1)

\* routes.ts:214-217, the loop over a group directory's children from i on
collapseChildren(children, i) ==
  IF i > Len(children) THEN Ok(<<>>)
  ELSE Try(parseRouteName(children[i]), LAMBDA childRouteName :
       Try(getCollapsedGroups(children[i], childRouteName), LAMBDA head :
       Try(collapseChildren(children, i + 1), LAMBDA rest :
         Ok(head.val \o rest.val))))

RECURSIVE getRouteConfigFromFileTree(_, _)
RECURSIVE getRouteConfigFromDirTree(_, _, _)
RECURSIVE mapCollapsed(_, _)
RECURSIVE parseChildren(_, _, _, _)

getRouteConfigFromFileTree(t, routeName) ==
  IF routeName.tree.kind = "file"
  THEN LET path == getRoutePath(routeName) IN
       IF path = None THEN Err("invalid route path")
       ELSE [kind |-> "page",
             intercept |-> IF routeName.kind = "segment"
                           THEN routeName.intercept ELSE None,
             path |-> path[1],
             param |-> getParamName(routeName),
             file |-> t.src]
  ELSE getRouteConfigFromDirTree(routeName.tree, Some(routeName), FALSE)

\* routes.ts:167-171, collapsedChildren.map(getRouteConfigFromFileTree)
mapCollapsed(collapsed, i) ==
  IF i > Len(collapsed) THEN Ok(<<>>)
  ELSE Try(getRouteConfigFromFileTree(collapsed[i].tree, collapsed[i].routeName),
           LAMBDA c :
       Try(mapCollapsed(collapsed, i + 1), LAMBDA rest :
         Ok(<<c>> \o rest.val)))

\* routes.ts:144-172, the loop that parses the children from child i on;
\* acc = [layout, scripts, children] built so far
parseChildren(t, indexTree, i, acc) ==
  IF i > Len(t.children) THEN Ok(acc)
  ELSE LET child == t.children[i] IN
    IF indexTree # None /\ indexTree[1].filename = child.filename
    THEN parseChildren(t, indexTree, i + 1, acc)
    ELSE IF isLayout(child)
    THEN IF acc.layout # None THEN Err("multiple layouts")
         ELSE parseChildren(t, indexTree, i + 1,
                            [acc EXCEPT !.layout = Some(child.src)])
    ELSE LET scripts == IF isScript(child) THEN Append(acc.scripts, child.src)
                        ELSE acc.scripts
         IN Try(parseRouteName(child), LAMBDA childRouteName :
            Try(getCollapsedGroups(child, childRouteName), LAMBDA collapsed :
            Try(mapCollapsed(collapsed.val, 1), LAMBDA mapped :
              parseChildren(t, indexTree, i + 1,
                [acc EXCEPT !.scripts = scripts,
                            !.children = @ \o mapped.val]))))

getRouteConfigFromDirTree(t, routeNameArg, isRoot) ==
  Try(IF routeNameArg # None THEN routeNameArg[1] ELSE parseRouteName(t),
      LAMBDA routeName :
  Try(IF routeName.kind = "segment"
      THEN findIndexTree(t.children, 1, None) ELSE Ok(None),
      LAMBDA found :
  Try(parseChildren(t, found.val, 1,
        [layout |-> None, scripts |-> <<>>,
         children |-> IF found.val # None
                      THEN <<[kind |-> "page", intercept |-> None, path |-> "/",
                              param |-> None, file |-> found.val[1].src]>>
                      ELSE <<>>]),
      LAMBDA parsedChildren :
    LET path == IF isRoot THEN Some("/") ELSE getRoutePath(routeName)
        acc == parsedChildren.val
    IN IF path = None THEN Err("invalid route path")
       ELSE IF routeName.kind = "segment"
         THEN [kind |-> "node", intercept |-> routeName.intercept,
               path |-> path[1], param |-> getParamName(routeName),
               layout |-> acc.layout, scripts |-> acc.scripts,
               children |-> acc.children]
       ELSE IF routeName.kind = "group" THEN Err("unexpected group")
       ELSE IF routeName.kind = "slot"
         THEN [kind |-> "node", intercept |-> None, path |-> path[1],
               param |-> None, layout |-> acc.layout, scripts |-> <<>>,
               children |-> acc.children]
       ELSE Err("fallback routes must not be directories"))))

getRouteConfig(t) == getRouteConfigFromDirTree(t, None, TRUE)

\* ------------------------------------------------------------------------
\* JS objects used as maps: Record<string, T>
\* The maps are plain objects ({} at manifest.ts:195, 201, 205, 288, 298,
\* 308), so m[k] also finds what Object.prototype holds under k.
\* ------------------------------------------------------------------------
ObjectPrototypeKeys ==
  {"constructor", "__proto__", "hasOwnProperty", "isPrototypeOf",
   "propertyIsEnumerable", "toLocaleString", "toString", "valueOf",
   "__defineGetter__", "__defineSetter__", "__lookupGetter__",
   "__lookupSetter__"}

\* what m[k] is when k is not an own key but one of Object.prototype: a
\* function or Object.prototype itself, with no kind and no segment
Inherited(k) == [kind |-> "inherited", key |-> k]

HasOwn(m, k) == \E i \in 1..Len(m) : m[i].key = k

\* the test `if (m[k])`: own values are route objects, inherited ones are
\* functions or objects, all truthy
MapHas(m, k) == HasOwn(m, k) \/ k \in ObjectPrototypeKeys

MapGet(m, k) ==
  IF HasOwn(m, k) THEN m[CHOOSE i \in 1..Len(m) : m[i].key = k].val
  ELSE Inherited(k)

\* an array index: the canonical decimal string of an integer from 0 to
\* 2^32 - 2 ("0", "1", "404"; not "01", not "1.5", not "4294967295")
Digits == <<"0", "1", "2", "3", "4", "5", "6", "7", "8", "9">>
IsDigit(c) == \E d \in 1..10 : Digits[d] = c
DigitOf(c) == CHOOSE d \in 1..10 : Digits[d] = c

\* a < b for canonical decimal strings, digit by digit (the values may
\* exceed the integers of the checker)
IndexLess(a, b) ==
  \/ Len(a) < Len(b)
  \/ /\ Len(a) = Len(b)
     /\ \E i \in 1..Len(a) :
          /\ SubSeq(a, 1, i - 1) = SubSeq(b, 1, i - 1)
          /\ DigitOf(Ch(a, i)) < DigitOf(Ch(b, i))

IsArrayIndex(k) ==
  /\ Len(k) >= 1
  /\ \A i \in 1..Len(k) : IsDigit(Ch(k, i))
  /\ Len(k) = 1 \/ Ch(k, 1) # "0"
  /\ Len(k) < 10 \/ (Len(k) = 10 /\ ~IndexLess("4294967294", k))

\* m[k] = v: an existing key keeps its place; a new array-index key goes
\* among the array-index keys at the front, in ascending numeric order; any
\* other new key goes last.
\* m["__proto__"] = v runs the setter of Object.prototype, which adds no own
\* key (every caller reads m[k] first, and with an inherited value the merge
\* throws, so this assignment is never reached with that key)
IndexKeysBelow(m, k) ==
  Cardinality({i \in 1..Len(m) : IsArrayIndex(m[i].key) /\ IndexLess(m[i].key, k)})

\* entry e after the first n entries of m
InsertAfter(m, n, e) == SubSeq(m, 1, n) \o <<e>> \o SubSeq(m, n + 1, Len(m))

MapSet(m, k, v) ==
  IF k = "__proto__" THEN m
  ELSE IF HasOwn(m, k)
  THEN [i \in 1..Len(m) |-> IF m[i].key = k THEN [key |-> k, val |-> v] ELSE m[i]]
  ELSE IF IsArrayIndex(k)
  THEN InsertAfter(m, IndexKeysBelow(m, k), [key |-> k, val |-> v])
  ELSE Append(m, [key |-> k, val |-> v])

\* Object.entries / Object.values: own keys only
MapKeys(m) == {m[i].key : i \in 1..Len(m)}

\* ------------------------------------------------------------------------
\* manifest.ts: RouteState
\* A RouteState is [segments, layouts]; segments is never written after
\* construction, layouts is an array that pushLayout mutates in place and
\* that getLayoutPaths hands out by reference.  The arrays live in a heap
\* (a sequence of arrays); a layouts field holds the array's index in it.
\* ------------------------------------------------------------------------
RouteStateEmpty == [state |-> [segments |-> <<>>, layouts |-> 1], heap |-> <<<<>>>>]

\* a new state that shares the layouts array of the previous one
fromSegment_SharedLayouts(prev, seg, heap) ==
  IF seg = "/" THEN [state |-> prev, heap |-> heap]
  ELSE [state |-> [segments |-> Append(prev.segments, seg),
                   layouts |-> prev.layouts],
        heap |-> heap]

fromSegment(prev, seg, heap) ==
  IF seg = "/" THEN [state |-> prev, heap |-> heap]
  ELSE [state |-> [segments |-> Append(prev.segments, seg),
                   layouts |-> Len(heap) + 1],
        heap |-> Append(heap, heap[prev.layouts])]

\* String.prototype.indexOf("."), 1-based, 0 for -1
indexOfDot(s) == IF FirstIn(s, {"."}, 1) > Len(s) THEN 0 ELSE FirstIn(s, {"."}, 1)

\* path.basename of a relative path without trailing separators
RECURSIVE basename(_)
basename(p) ==
  IF FirstIn(p, {"/"}, 1) > Len(p) THEN p
  ELSE basename(SliceFrom(p, FirstIn(p, {"/"}, 1) + 1))

Includes(seq, x) == \E i \in 1..Len(seq) : seq[i] = x

\* returns the heap after the call
pushLayout(state, filename, heap) ==
  LET dot == indexOfDot(filename)
      trimmed == IF dot = 0 THEN filename ELSE SubSeq(filename, 1, dot - 1)
      layout == Join(Append(state.segments, trimmed \o ".html"), "/")
  IN IF ~Includes(heap[state.layouts], layout)
     THEN [heap EXCEPT ![state.layouts] = Append(@, layout)]
     ELSE heap

\* a partial path that forgets the accumulated segments
getPartialPath_NoSegments(state, seg) == seg \o ".html"

getPartialPath(state, seg) == Join(Append(state.segments, seg \o ".html"), "/")

getLayoutPaths(state) == state.layouts

\* ------------------------------------------------------------------------
\* manifest.ts: mergeManifestRoutes
\* merged.fallback / slots / children start as left's own objects
\* (manifest.ts:281-283) and are written in place (292, 302, 311, 313), so
\* the call changes left as well: a map that left has holds, after the
\* call, every entry written into it, also when the call throws midway.  A
\* map that left lacks is created for merged alone (288, 298, 308).
\* The loops return [kind "ok" | "error", msg, val]: val is the map as the
\* loop leaves it.
\* ------------------------------------------------------------------------
Thrown(msg, val) == [kind |-> "error", msg |-> msg, val |-> val]

\* x.segment of a value that may be one inherited from Object.prototype
SegmentOf(x) == IF x.kind = "inherited" THEN None ELSE Some(x.segment)

\* manifest.ts:286-304, union with a fatal duplicate key, from entry i on
RECURSIVE mergeUnique(_, _, _, _)

\* a union in which a duplicate key is overwritten
mergeUnique_LastWins(acc, entries, i, msg) ==
  IF i > Len(entries) THEN Ok(acc)
  ELSE mergeUnique(MapSet(acc, entries[i].key, entries[i].val), entries, i + 1, msg)

mergeUnique(acc, entries, i, msg) ==
  IF i > Len(entries) THEN Ok(acc)
  ELSE IF MapHas(acc, entries[i].key) THEN Thrown(msg, acc)
  ELSE mergeUnique(MapSet(acc, entries[i].key, entries[i].val), entries, i + 1, msg)

RECURSIVE mergeInPlace(_, _)
RECURSIVE mergeChildren(_, _, _)

\* the loop over right.children keeping the recursively merged child
mergeChildren_KeepMerged(acc, entries, i) ==
  IF i > Len(entries) THEN Ok(acc)
  ELSE IF ~MapHas(acc, entries[i].key)
    THEN mergeChildren(MapSet(acc, entries[i].key, entries[i].val), entries, i + 1)
  ELSE Const(mergeInPlace(MapGet(acc, entries[i].key), entries[i].val), LAMBDA m :
          IF IsErr(m) THEN Thrown(m.msg, acc)
          ELSE mergeChildren(MapSet(acc, entries[i].key, m.route), entries, i + 1))

\* manifest.ts:306-315, the loop over right.children from entry i on: the
\* recursive merge writes into leftChild, which stays in the map when the
\* merge throws and is replaced by rightChild when it returns
mergeChildren(acc, entries, i) ==
  IF i > Len(entries) THEN Ok(acc)
  ELSE IF ~MapHas(acc, entries[i].key)
    THEN mergeChildren(MapSet(acc, entries[i].key, entries[i].val), entries, i + 1)
  ELSE Const(mergeInPlace(MapGet(acc, entries[i].key), entries[i].val), LAMBDA m :
          IF IsErr(m)
          THEN Thrown(m.msg, IF HasOwn(acc, entries[i].key)
                             THEN MapSet(acc, entries[i].key, m.left) ELSE acc)
          ELSE mergeChildren(MapSet(acc, entries[i].key, entries[i].val), entries, i + 1))

\* what left keeps of a map the loops have written: left's own object when
\* it had one, nothing when the object was created for merged
Shared(own, written) == IF own = <<>> THEN <<>> ELSE written

\* mergeManifestRoutes with its effect on left:
\* [kind "ok", route, left] or [kind "error", msg, left]
mergeInPlace(l, r) ==
  IF l.kind = "page" \/ r.kind = "page"
    THEN [kind |-> "error", msg |-> "cannot merge page routes", left |-> l]
  ELSE IF l.kind = "intercept" \/ r.kind = "intercept"
    THEN [kind |-> "error", msg |-> "cannot merge intercepts", left |-> l]
  ELSE IF l.kind = "public" \/ r.kind = "public"
    THEN [kind |-> "error", msg |-> "cannot merge public routes", left |-> l]
  ELSE IF SegmentOf(l) # SegmentOf(r)
    THEN [kind |-> "error", msg |-> "route segment mismatch", left |-> l]
  ELSE IF l.index # None /\ r.index # None
    THEN [kind |-> "error", msg |-> "cannot merge index routes", left |-> l]
  ELSE
    Const(mergeUnique(l.fallback, r.fallback, 1, "cannot merge fallback routes"),
          LAMBDA fallback :
       IF IsErr(fallback)
       THEN [kind |-> "error", msg |-> fallback.msg,
             left |-> [l EXCEPT !.fallback = Shared(@, fallback.val)]]
       ELSE
    Const(mergeUnique(l.slots, r.slots, 1, "cannot merge slot routes"),
          LAMBDA slots :
       IF IsErr(slots)
       THEN [kind |-> "error", msg |-> slots.msg,
             left |-> [l EXCEPT !.fallback = Shared(@, fallback.val),
                                !.slots = Shared(@, slots.val)]]
       ELSE
    Const(mergeChildren(l.children, r.children, 1), LAMBDA children :
       IF IsErr(children)
       THEN [kind |-> "error", msg |-> children.msg,
             left |-> [l EXCEPT !.fallback = Shared(@, fallback.val),
                                !.slots = Shared(@, slots.val),
                                !.children = Shared(@, children.val)]]
       ELSE [kind |-> "ok",
             route |-> [kind |-> "node",
                        segment |-> l.segment,
                        index |-> IF l.index # None THEN l.index ELSE r.index,
                        fallback |-> fallback.val,
                        slots |-> slots.val,
                        children |-> children.val],
             left |-> [l EXCEPT !.fallback = Shared(@, fallback.val),
                                !.slots = Shared(@, slots.val),
                                !.children = Shared(@, children.val)]])))

\* the value mergeManifestRoutes returns, or the Error it throws
mergeManifestRoutes(l, r) ==
  Const(mergeInPlace(l, r), LAMBDA m : IF IsErr(m) THEN Err(m.msg) ELSE m.route)

\* ------------------------------------------------------------------------
\* manifest.ts: Manifest builder.  Every builder returns
\* [kind "ok", route, heap] or an error.
\* ------------------------------------------------------------------------
Built(route, heap) == [kind |-> "ok", route |-> route, heap |-> heap]

getManifestRoutesFromPage(cfg, state, heap) ==
  LET seg == getSegmentFromPath(cfg.path) IN
  Built([kind |-> "page",
         segment |-> seg,
         param |-> cfg.param,
         layouts |-> getLayoutPaths(state),
         partial |-> getPartialPath(state, seg)], heap)

\* interceptBase without the filter on slot segments
interceptBase_KeepSlots(intercept, stateSegments) ==
  LET routePath == stateSegments IN
  CASE intercept = "." -> routePath
    [] intercept = ".." -> SubSeq(routePath, 1, Len(routePath) - 1)
    [] intercept = "../.." -> SubSeq(routePath, 1, Len(routePath) - 2)
    [] intercept = "..." -> <<>>

\* the base of an intercept: manifest.ts:227-241
interceptBase(intercept, stateSegments) ==
  LET routePath == SelectSeq(stateSegments, LAMBDA s : ~StartsWith(s, "@")) IN
  CASE intercept = "." -> routePath
    [] intercept = ".." -> SubSeq(routePath, 1, Len(routePath) - 1)
    [] intercept = "../.." -> SubSeq(routePath, 1, Len(routePath) - 2)
    [] intercept = "..." -> <<>>

RECURSIVE getManifestRoutesFromConfig(_, _, _)
RECURSIVE getManifestRoutesFromNode(_, _, _)
RECURSIVE getManifestRouteIntercept(_, _, _)
RECURSIVE buildChildren(_, _, _, _)

\* called only when cfg.intercept is set (manifest.ts:225)
getManifestRouteIntercept(cfg, state, heap) ==
  Try(getManifestRoutesFromConfig([cfg EXCEPT !.intercept = None], state, heap),
      LAMBDA inner :
    Built([kind |-> "intercept",
           base |-> interceptBase(cfg.intercept[1], state.segments),
           children |-> <<[key |-> getSegmentFromPath(cfg.path),
                           val |-> inner.route]>>],
          inner.heap))

getManifestRoutesFromConfig(cfg, state, heap) ==
  IF cfg.intercept # None THEN getManifestRouteIntercept(cfg, state, heap)
  ELSE IF cfg.kind = "page" THEN getManifestRoutesFromPage(cfg, state, heap)
  ELSE getManifestRoutesFromNode(cfg, state, heap)

\* manifest.ts:166-209, the loop over config.children from child i on;
\* acc = [index, fallback, slots, children, heap] built so far
buildChildren(cfg, nextState, i, acc) ==
  IF i > Len(cfg.children) THEN Ok(acc)
  ELSE LET child == cfg.children[i] IN
    IF child.path = "/"
    THEN IF acc.index # None THEN Err("multiple index routes")
         ELSE IF child.kind # "page" THEN Err("index route must be a page")
         ELSE buildChildren(cfg, nextState, i + 1,
                [acc EXCEPT !.index = Some([kind |-> "index",
                                            layouts |-> getLayoutPaths(nextState),
                                            partial |-> getPartialPath(nextState, "%")])])
    ELSE
      Const(getSegmentFromPath(child.path), LAMBDA seg :
      Try(getManifestRoutesFromConfig(child, nextState, acc.heap), LAMBDA built :
        IF StartsWith(seg, "^")
        THEN IF child.kind # "page" THEN Err("fallback route must be a page")
             ELSE IF MapHas(acc.fallback, seg) THEN Err("cannot merge fallback routes")
             ELSE buildChildren(cfg, nextState, i + 1,
                    [acc EXCEPT !.heap = built.heap,
                                !.fallback = MapSet(@, seg,
                                   [layouts |-> getLayoutPaths(nextState),
                                    partial |-> getPartialPath(nextState, seg)])])
        ELSE IF StartsWith(seg, "@")
        THEN Try(IF MapHas(acc.slots, seg)
                 THEN mergeManifestRoutes(MapGet(acc.slots, seg), built.route)
                 ELSE built.route, LAMBDA new :
               buildChildren(cfg, nextState, i + 1,
                 [acc EXCEPT !.heap = built.heap, !.slots = MapSet(@, seg, new)]))
        ELSE Try(IF MapHas(acc.children, seg)
                 THEN mergeManifestRoutes(MapGet(acc.children, seg), built.route)
                 ELSE built.route, LAMBDA new :
               buildChildren(cfg, nextState, i + 1,
                 [acc EXCEPT !.heap = built.heap, !.children = MapSet(@, seg, new)]))))

getManifestRoutesFromNode(cfg, state, heap) ==
  Const(getSegmentFromPath(cfg.path), LAMBDA seg :
  Const(fromSegment(state, seg, heap), LAMBDA next :
  Try(buildChildren(cfg, next.state, 1,
        [index |-> None, fallback |-> <<>>, slots |-> <<>>, children |-> <<>>,
         heap |-> IF cfg.layout # None
                  THEN pushLayout(next.state, basename(cfg.layout[1]), next.heap)
                  ELSE next.heap]), LAMBDA built :
    Built([kind |-> "node",
           segment |-> seg,
           index |-> built.val.index,
           fallback |-> built.val.fallback,
           slots |-> built.val.slots,
           children |-> built.val.children], built.val.heap))))

\* what a reader of the returned manifest sees: every layouts reference
\* replaced by the contents its array has once the build is over
RECURSIVE readManifest(_, _)
readManifest(route, heap) ==
  LET readMap(m) == [i \in 1..Len(m) |->
                       [key |-> m[i].key, val |-> readManifest(m[i].val, heap)]]
  IN CASE route.kind = "page" -> [route EXCEPT !.layouts = heap[@]]
       [] route.kind = "intercept" -> [route EXCEPT !.children = readMap(@)]
       [] route.kind = "node" ->
            [route EXCEPT
               !.index = IF @ = None THEN None
                         ELSE Some([@[1] EXCEPT !.layouts = heap[@]]),
               !.fallback = [i \in 1..Len(@) |->
                               [key |-> @[i].key,
                                val |-> [@[i].val EXCEPT !.layouts = heap[@]]]],
               !.slots = readMap(@),
               !.children = readMap(@)]

getManifestRoutes(cfg) ==
  Try(getManifestRoutesFromConfig(cfg, RouteStateEmpty.state, RouteStateEmpty.heap),
      LAMBDA built : readManifest(built.route, built.heap))

\* ------------------------------------------------------------------------
\* plugin-pacifica.ts: matchRoute, returning Ok(None) for undefined,
\* Ok(Some(route)) for a match, and the thrown Error("todo")
\* ------------------------------------------------------------------------
RECURSIVE matchRoute(_, _)
RECURSIVE matchChildren(_, _, _)

\* plugin-pacifica.ts:179-184, the loop over Object.values(children)
matchChildren(next, children, i) ==
  IF i > Len(children) THEN Ok(None)
  ELSE LET m == matchRoute(next, children[i].val) IN
       IF IsErr(m) THEN m
       ELSE IF m.val # None THEN m
       ELSE matchChildren(next, children, i + 1)

matchRoute(segs, routes) ==
  IF Len(segs) = 0 THEN Ok(None)
  ELSE IF routes.kind = "page"
    THEN IF Len(segs) # 1 THEN Ok(None)
         ELSE IF routes.segment = segs[1] THEN Ok(Some(routes)) ELSE Ok(None)
  ELSE IF routes.kind = "node"
    THEN IF routes.segment # Head(segs) THEN Ok(None)
         ELSE IF Len(Tail(segs)) = 0 THEN Ok(routes.index)
         ELSE matchChildren(Tail(segs), routes.children, 1)
  ELSE Err("todo")

\* ------------------------------------------------------------------------
\* Inputs
\* ------------------------------------------------------------------------
MaxNameLen == 3
MaxKids == 3
MaxChain == 3

\* all sequences of at most n distinct elements of S (a directory never
\* holds two entries of one name)
RECURSIVE DistinctSeqs(_, _)
DistinctSeqs(S, n) ==
  IF n = 0 THEN {<<>>}
  ELSE LET shorter == DistinctSeqs(S, n - 1) IN
       shorter \cup {Append(q, x) : q \in shorter, x \in S}

HasDistinctNames(kids) ==
  \A i, j \in 1..Len(kids) : i # j => kids[i].name # kids[j].name

Listings(S, n) == {q \in DistinctSeqs(S, n) : HasDistinctNames(q)}

\* filenames for the grammar: every string of at most MaxNameLen characters
\* over the grammar's alphabet and a line terminator (a legal character of a
\* filename on disk), and the grammar's forms around a few names
Alphabet == {"a", ".", "(", ")", "[", "]", "@", "*", "_", "?", ":", "\n"}

RECURSIVE Strings(_)
Strings(n) ==
  IF n = 0 THEN {""}
  ELSE Strings(n - 1) \cup {w \o c : w \in Strings(n - 1), c \in Alphabet}

Names == {"a", "id", "index", "a?", ":a", "_a", "a)"}
Extensions == {"", ".tsx", ".script.ts", ".(x)", ".x\ny", ".\r"}
Prefixes == {"", "(.)", "(..)", "(..)(..)", "(...)"}
Bodies(n) == {n, "[" \o n \o "]", "[[" \o n \o "]]", "[..." \o n \o "]",
              n \o "(g)", "(" \o n \o ")", "@" \o n, "*" \o n}

FormNames == {pre \o b \o e : pre \in Prefixes,
                              b \in UNION {Bodies(n) : n \in Names},
                              e \in Extensions}

ParseNames == (Strings(MaxNameLen) \ {""}) \cup FormNames

ParseTrees == {[kind |-> "file", filename |-> f, src |-> f] : f \in ParseNames}
         \cup {[kind |-> "dir", filename |-> f, src |-> f, children |-> <<>>] : f \in ParseNames}

\* directories on disk for the compiler -------------------------------------
SeqToSet(q) == {q[i] : i \in 1..Len(q)}

Permutations4(q) ==
  {<<q[a], q[b], q[c], q[d]>> : a, b, c, d \in 1..4} \cap
  {r \in [1..4 -> SeqToSet(q)] : SeqToSet(r) = SeqToSet(q)}

\* the end-to-end scenario, its four entries in any readdir order
EndToEndKids ==
  <<File("index.tsx"),
    Dir("about", <<File("page.tsx")>>),
    Dir("(group)", <<Dir("contact", <<File("page.tsx")>>)>>),
    File("_layout.tsx")>>

EndToEndDirs == {Dir("root", kids) : kids \in Permutations4(EndToEndKids)}

\* a directory of each kind holding index candidates, pages and a layout
IndexFiles == {File("index.tsx"), File("index.ts"), File("[index].tsx"),
               File("(home).tsx"), File("a.tsx"), File("_layout.tsx")}
IndexDirNames == {"a", "[id]", "(.)a", "@s", "(g)"}

IndexDirs ==
  {Dir("routes", kids) : kids \in Listings(IndexFiles, MaxKids)} \cup
  {Dir("routes", <<Dir(d, kids)>>) : d \in IndexDirNames,
                                     kids \in Listings(IndexFiles, MaxKids)}

\* a group directory wrapping entries of every kind, between two siblings
GroupItems == {File("a.tsx"), File("index.tsx"), File("_layout.tsx"),
               File("b.script.ts"), Dir("c", <<File("p.tsx")>>),
               Dir("(h)", <<File("d.tsx")>>)}

GroupDirs ==
  {Dir("routes", before \o <<Dir("(g)", kids)>> \o after) :
     before \in {<<>>, <<File("y.tsx")>>},
     kids \in Listings(GroupItems, MaxKids),
     after \in {<<>>, <<File("z.tsx")>>}}

\* an intercepting (or plain) page or directory under a chain of at most
\* MaxChain directories
ChainDirNames == {"feed", "post", "@modal", "[id]", "(..)live"}
ChainLeaves ==
  UNION {{File(pre \o "photo.tsx"), Dir(pre \o "photo", <<File("index.tsx")>>)} :
           pre \in {"", "(.)", "(..)", "(..)(..)", "(...)"}}

RECURSIVE Chain(_, _)
Chain(names, leaf) ==
  IF Len(names) = 0 THEN leaf
  ELSE Dir(Head(names), <<Chain(Tail(names), leaf)>>)

RECURSIVE SeqsUpTo(_, _)
SeqsUpTo(S, n) ==
  IF n = 0 THEN {<<>>}
  ELSE SeqsUpTo(S, n - 1) \cup {Append(q, x) : q \in SeqsUpTo(S, n - 1), x \in S}

ChainDirs ==
  {Dir("routes", <<Chain(names, leaf)>>) :
     names \in SeqsUpTo(ChainDirNames, MaxChain), leaf \in ChainLeaves}

\* two sibling directories that resolve to the same segment "a"; the
\* entry "1" has an array index as its key
MaxMergeKids == 2
MergeItems == {File("index.tsx"), File("b.tsx"), File("*e.tsx"),
               Dir("b", <<File("p.tsx")>>), Dir("b", <<File("q.tsx")>>),
               Dir("1", <<File("p.tsx")>>)}
MergeListings == Listings(MergeItems, MaxMergeKids)

MergeDirs ==
  {Dir("routes", <<Dir("a", x), Dir("a(x)", y)>>) :
     x \in MergeListings, y \in MergeListings}

\* two entries of one directory, the second wrapped in a group, that
\* resolve to the key "a" of the children map or "@s" of the slots map
CollideItems ==
  {File("a.tsx"), File("(.)a.tsx"), File("@s.tsx"),
   Dir("a", <<File("p.tsx")>>), Dir("a", <<File("index.tsx")>>),
   Dir("a", <<File("*e.tsx")>>), Dir("a", <<Dir("@s", <<File("p.tsx")>>)>>),
   Dir("a", <<Dir("b", <<File("index.tsx")>>)>>),
   Dir("(.)a", <<File("p.tsx")>>),
   Dir("@s", <<File("p.tsx")>>), Dir("@s", <<File("q.tsx")>>)}

CollideDirs ==
  {Dir("routes", <<x, Dir("(g)", <<y>>)>>) : x \in CollideItems, y \in CollideItems}

\* nested, sibling and merged directories that each declare a layout or none
LayoutFiles == {<<>>, <<File("_layout.tsx")>>, <<File("_app.server.tsx")>>,
                <<File("_base")>>}

LayoutDirs ==
  {Dir("routes",
       top \o <<File("index.tsx"),
                Dir("a", <<File("p.tsx")>> \o outer \o
                         <<Dir("b", inner \o <<File("index.tsx"), File("*e.tsx")>>)>>),
                Dir("a(x)", other \o <<File("q.tsx")>>),
                Dir("@s", <<File("r.tsx")>> \o slot),
                File("z.tsx")>>) :
     top \in LayoutFiles, outer \in LayoutFiles,
     inner \in {<<>>, <<File("_layout.tsx")>>},
     other \in {<<>>, <<File("_layout.tsx")>>},
     slot \in LayoutFiles}

\* a file or a directory named like a property of Object.prototype, as a
\* page, a directory, an intercept, or under a directory, a slot or a group
ProtoNames == {"constructor", "toString", "__proto__"}
ProtoItems ==
  UNION {{File(n \o ".tsx"), File("(.)" \o n \o ".tsx"), File("[" \o n \o "].tsx"),
          Dir(n, <<File("p.tsx")>>), Dir(n, <<>>)} : n \in ProtoNames}

ProtoDirs ==
  {Dir("routes", <<x>>) : x \in ProtoItems} \cup
  {Dir("routes", <<File("index.tsx"), Dir(d, <<x>>)>>) :
     d \in {"a", "@s", "(g)", "(.)a"}, x \in ProtoItems}

\* entries whose segment is an array index or looks like one, next to
\* entries of other names, in one directory or in two that merge; and a
\* filename with a line terminator in its extension
KeyOrderItems == {File("404.tsx"), File("1.tsx"), File("01.tsx"), File("b.tsx"),
                  File("x.tsx"), Dir("1", <<File("index.tsx")>>),
                  File("a.b\nc")}

KeyOrderMergeItems == {File("404.tsx"), File("x.tsx"), File("b.tsx"),
                       Dir("1", <<File("index.tsx")>>)}

KeyOrderDirs ==
  {Dir("routes", kids) : kids \in Listings(KeyOrderItems, MaxKids)} \cup
  {Dir("routes", <<Dir("a", x), Dir("a(g)", y)>>) :
     x \in Listings(KeyOrderMergeItems, MaxMergeKids),
     y \in Listings(KeyOrderMergeItems, MaxMergeKids)}

\* a routes path that is a regular file, and one where nothing is
NotDirs == {File("routes"), Missing("routes")}

\* what readFileTree returns or throws for each of them
CompileTrees ==
  {readFileTree(d) : d \in EndToEndDirs \cup IndexDirs \cup GroupDirs
                            \cup ChainDirs \cup MergeDirs \cup CollideDirs
                            \cup LayoutDirs \cup ProtoDirs \cup KeyOrderDirs
                            \cup NotDirs}

\* directories and requests for the matcher
MatchItems == {File("index.tsx"), File("a.tsx"), File("(.)b.tsx"), File("1.tsx"),
               Dir("c", <<File("index.tsx"), File("d.tsx")>>),
               Dir("e", <<File("(.)f.tsx"), File("d.tsx")>>)}
MatchTrees == {readFileTree(Dir("routes", kids)) : kids \in Listings(MatchItems, MaxKids)}

MaxRequest == 2
RequestSegments == {"a", "b", "c", "d", "e", "1"}
Requests == {<<"/">> \o q : q \in SeqsUpTo(RequestSegments, MaxRequest)}

\* manifest nodes for the merge: the node of directory "a" under each listing
ManifestOf(kids) ==
  getManifestRoutes(getRouteConfig(readFileTree(Dir("routes", <<Dir("a", kids)>>))))

MergeNodes ==
  {MapGet(m.children, "a") :
     m \in {b \in {ManifestOf(kids) : kids \in MergeListings} : ~IsErr(b)}}

\* ------------------------------------------------------------------------
\* Specification of the filename grammar: one filename, as a file or as a
\* directory, is parsed, turned into a Route Config path and then into a
\* manifest segment
\* ------------------------------------------------------------------------
\* nothing called and no server running
Unused ==
  /\ received = Null /\ returned = Null
  /\ options = "undefined" /\ disk = Missing("routes") /\ events = <<>>
  /\ routeState = None /\ tasks = <<>> /\ queue = <<>>
  /\ reads = <<>> /\ writer = 0

Idle ==
  /\ parsed = Null /\ urlPath = None /\ urlSegment = ""
  /\ config = Null /\ manifest = Null
  /\ segments = <<>> /\ match = Null
  /\ left = Null /\ right = Null /\ merged = Null
  /\ Unused

InitParse ==
  /\ pc = "parse"
  /\ tree \in ParseTrees
  /\ Idle

ParseRouteName ==
  /\ pc = "parse"
  /\ parsed' = parseRouteName(tree)
  /\ pc' = "parsed"
  /\ UNCHANGED <<tree, urlPath, urlSegment, config, manifest, segments, match,
                 left, right, merged,
                 callVars, serverVars>>

GetRoutePath ==
  /\ pc = "parsed"
  /\ ~IsErr(parsed)
  /\ urlPath' = getRoutePath(parsed)
  /\ pc' = "path"
  /\ UNCHANGED <<tree, parsed, urlSegment, config, manifest, segments, match,
                 left, right, merged,
                 callVars, serverVars>>

GetSegmentFromPath ==
  /\ pc = "path"
  /\ urlPath # None
  /\ urlSegment' = getSegmentFromPath(urlPath[1])
  /\ pc' = "segment"
  /\ UNCHANGED <<tree, parsed, urlPath, config, manifest, segments, match,
                 left, right, merged,
                 callVars, serverVars>>

NextParse == ParseRouteName \/ GetRoutePath \/ GetSegmentFromPath

SpecParse == InitParse /\ [][NextParse]_vars

\* ------------------------------------------------------------------------
\* Specification of the compiler: a directory tree is compiled into a Route
\* Config and, when that succeeds, into a Manifest
\* ------------------------------------------------------------------------
InitCompile ==
  /\ pc = "tree"
  /\ tree \in CompileTrees
  /\ Idle

\* plugin-pacifica.ts:147-148, reached when readFileTree returned
GetRouteConfig ==
  /\ pc = "tree"
  /\ ~IsErr(tree)
  /\ config' = getRouteConfig(tree)
  /\ pc' = "config"
  /\ UNCHANGED <<tree, parsed, urlPath, urlSegment, manifest, segments, match,
                 left, right, merged,
                 callVars, serverVars>>

GetManifestRoutes ==
  /\ pc = "config"
  /\ ~IsErr(config)
  /\ manifest' = getManifestRoutes(config)
  /\ pc' = "manifest"
  /\ UNCHANGED <<tree, parsed, urlPath, urlSegment, config, segments, match,
                 left, right, merged,
                 callVars, serverVars>>

NextCompile == GetRouteConfig \/ GetManifestRoutes

SpecCompile == InitCompile /\ [][NextCompile]_vars

\* ------------------------------------------------------------------------
\* Specification of the dev-server matcher: a request's segments are matched
\* against the manifest of a compiled tree
\* ------------------------------------------------------------------------
InitMatch ==
  /\ pc = "tree"
  /\ tree \in MatchTrees
  /\ Idle

MatchRoute ==
  /\ pc = "manifest"
  /\ ~IsErr(manifest)
  /\ \E segs \in Requests :
       /\ segments' = segs
       /\ match' = matchRoute(segs, manifest)
  /\ pc' = "matched"
  /\ UNCHANGED <<tree, parsed, urlPath, urlSegment, config, manifest,
                 left, right, merged,
                 callVars, serverVars>>

NextMatch == GetRouteConfig \/ GetManifestRoutes \/ MatchRoute

SpecMatch == InitMatch /\ [][NextMatch]_vars

\* ------------------------------------------------------------------------
\* Specification of the merge: two manifest nodes are merged
\* ------------------------------------------------------------------------
InitMerge ==
  /\ pc = "merge"
  /\ tree = Null
  /\ parsed = Null /\ urlPath = None /\ urlSegment = ""
  /\ config = Null /\ manifest = Null
  /\ segments = <<>> /\ match = Null
  /\ left \in MergeNodes
  /\ right \in MergeNodes
  /\ merged = Null
  /\ Unused

\* one call mergeManifestRoutes(left, right): merged is what it returns or
\* throws, and left is left's object as the call leaves it
MergeManifestRoutes ==
  /\ pc = "merge"
  /\ merged' = mergeManifestRoutes(left, right)
  /\ left' = mergeInPlace(left, right).left
  /\ pc' = "merged"
  /\ UNCHANGED <<tree, parsed, urlPath, urlSegment, config, manifest, segments,
                 match, right,
                 callVars, serverVars>>

NextMerge == MergeManifestRoutes

SpecMerge == InitMerge /\ [][NextMerge]_vars

\* ------------------------------------------------------------------------
\* Specification of the builder's calls: the Route State a call of
\* getManifestRoutesFromConfig receives is read before and after the call
\* ------------------------------------------------------------------------
\* the fields of a Route State as its holder reads them
ReadState(st, heap) == [segments |-> st.segments, layouts |-> heap[st.layouts]]

CallTrees == {readFileTree(d) : d \in LayoutDirs \cup EndToEndDirs}

InitCall ==
  /\ pc = "tree"
  /\ tree \in CallTrees
  /\ Idle

\* manifest.ts:68-71, getManifestRoutes passes RouteState.empty()
CallFromGetManifestRoutes ==
  /\ pc = "config"
  /\ ~IsErr(config)
  /\ LET built == getManifestRoutesFromConfig(config, RouteStateEmpty.state,
                                              RouteStateEmpty.heap)
     IN /\ received' = ReadState(RouteStateEmpty.state, RouteStateEmpty.heap)
        /\ returned' = IF IsErr(built) THEN Null
                       ELSE ReadState(RouteStateEmpty.state, built.heap)
        /\ manifest' = IF IsErr(built) THEN built
                       ELSE readManifest(built.route, built.heap)
  /\ pc' = "manifest"
  /\ UNCHANGED <<tree, parsed, urlPath, urlSegment, config, segments, match,
                 left, right, merged, serverVars>>

\* manifest.ts:151-186, the root node passes its nextState to each child
\* that is not the index
CallFromNode ==
  /\ pc = "manifest"
  /\ ~IsErr(manifest)
  /\ \E i \in 1..Len(config.children) :
       /\ config.children[i].path # "/"
       /\ LET next == fromSegment(RouteStateEmpty.state,
                                  getSegmentFromPath(config.path),
                                  RouteStateEmpty.heap)
              heap1 == IF config.layout # None
                       THEN pushLayout(next.state, basename(config.layout[1]), next.heap)
                       ELSE next.heap
              built == getManifestRoutesFromConfig(config.children[i], next.state, heap1)
          IN /\ received' = ReadState(next.state, heap1)
             /\ returned' = IF IsErr(built) THEN Null
                            ELSE ReadState(next.state, built.heap)
  /\ pc' = "child"
  /\ UNCHANGED <<tree, parsed, urlPath, urlSegment, config, manifest, segments,
                 match, left, right, merged, serverVars>>

NextCall == GetRouteConfig \/ CallFromGetManifestRoutes \/ CallFromNode

SpecCall == InitCall /\ [][NextCall]_vars

\* ------------------------------------------------------------------------
\* Specification of the dev server (plugin-pacifica.ts): requests and
\* watcher events run as asynchronous handlers over the plugin's cached
\* route state.  A handler is [kind, path, pc, io, listing, next, result].
\* It is suspended only while a file-system call is pending (pc names the
\* call); what it does between two such calls, and after the last one, runs
\* without interruption, because promise continuations run before the next
\* file-system or watcher callback.  A pending call runs in the thread pool
\* and reads the disk there, at any time after it was issued; its result
\* (io) reaches the handler in a later callback.  The files of the routes
\* directory are changed by other processes; the watcher reports a change
\* in a later turn of the event loop.  So between the read of a call and
\* its callback the disk changes and other callbacks run.
\* ------------------------------------------------------------------------
MaxFetches == 2
MaxEvents == 2
\* requests, watcher events and changes still to be reported, together
MaxHandlers == 3

compilerVars == <<pc, tree, parsed, urlPath, urlSegment, config, manifest,
                  segments, match, left, right, merged, callVars>>

\* join(config.root, "src/routes"), resolved
RoutesDir == "/app/src/routes"
ServerFiles == <<"a.tsx", "b.tsx">>
\* a path the watcher reports that is not under the routes directory
OtherPath == "/app/src/main.ts"

\* what can be at RoutesDir: nothing, a regular file, or a directory holding
\* some of ServerFiles (readdir lists them in this order)
Listing(files) == SelectSeq(ServerFiles, LAMBDA f : f \in files)

DiskDir(files) ==
  Dir("routes", [i \in 1..Len(Listing(files)) |-> File(Listing(files)[i])])

\* the routes path when the server starts: the directory is empty or holds
\* the first file
Disks == {Missing("routes"), File("routes"), DiskDir({}), DiskDir({ServerFiles[1]})}

\* fs.readdir(RoutesDir)
readdir(d) == [i \in 1..Len(d.kids) |-> d.kids[i].name]

\* what is at RoutesDir/name
Entry(d, name) ==
  IF d.kind = "dir" /\ \E i \in 1..Len(d.kids) : d.kids[i].name = name
  THEN File(name) ELSE Missing(name)

\* fs.stat(RoutesDir/name)
statEntry(d, name) ==
  IF d.kind = "file" THEN Err("ENOTDIR") ELSE stat(Entry(d, name))

\* the plugin's options: none, { routes: { routesDir } } naming the same
\* directory, or { routes: <a Route Config> }
PluginOptions == {"undefined", "routesDir", "routes"}

\* the Route Config given as options.routes
StaticConfig == getRouteConfig(readFileTree(Dir("routes", <<File("a.tsx")>>)))

\* plugin-pacifica.ts:125-131 (kind is the model's tag of a returned value)
getRouteStateFromConfig(cfg) ==
  Try(getManifestRoutes(cfg), LAMBDA routes :
    [kind |-> "routeState",
     fs |-> None,
     routes |-> [config |-> cfg, manifest |-> routes]])

\* plugin-pacifica.ts:145-156 after the tree was read
getRouteStateFromPath(t) ==
  Try(getRouteConfig(t), LAMBDA cfg :
  Try(getManifestRoutes(cfg), LAMBDA routes :
    [kind |-> "routeState",
     fs |-> Some([dir |-> RoutesDir, tree |-> t]),
     routes |-> [config |-> cfg, manifest |-> routes]]))

Handlers(kind) == {i \in 1..Len(tasks) : tasks[i].kind = kind}

\* the add and unlink events the watcher has reported so far on paths under
\* the routes directory: each one called revalidateRoutes
Reported ==
  Cardinality({i \in Handlers("revalidate") : StartsWith(tasks[i].path, RoutesDir)})

\* the files added to and removed from the routes directory so far: the
\* changes the watcher has reported and those it has still to report
Changes == Reported + Len(events)

\* a handler just called. pc "called": the handler is suspended at an await
\* on a promise that is settled already with result, and its continuation
\* is in the microtask queue; assign: the await is the one of line 66, the
\* assignment to state.routeState is still to run; io: what the pending
\* file-system call has read, once the thread pool has run it
Handler(kind, path) ==
  [kind |-> kind, path |-> path, pc |-> "called", io |-> None, listing |-> <<>>,
   next |-> 0, result |-> Null, assign |-> FALSE]

\* handler i becomes h (i is Len(tasks) + 1 for a handler just called)
Put(i, h) == IF i > Len(tasks) THEN Append(tasks, h) ELSE [tasks EXCEPT ![i] = h]

\* plugin-pacifica.ts:71-79 for revalidateRoutes after its await (the paths
\* are absolute, so resolve() leaves them as they are), 102-112 for the
\* middleware: the handler has the route state outcome, or the Error, and
\* runs to its end
Finish(i, h, outcome) ==
  /\ tasks' = Put(i, [h EXCEPT !.pc = IF IsErr(outcome) THEN "failed" ELSE "done",
                               !.result = outcome, !.assign = FALSE])
  /\ IF /\ ~IsErr(outcome)
        /\ h.kind = "revalidate"
        /\ outcome.fs # None
        /\ StartsWith(h.path, outcome.fs[1].dir)
     THEN routeState' = None /\ writer' = 0
     ELSE UNCHANGED <<routeState, writer>>

\* the last file-system call of handler i has completed and
\* getRouteStateFromOptions settles with outcome: plugin-pacifica.ts:66-67
\* and then the rest of the handler run in the microtasks of this
\* completion, with no other code in between
Settle(i, h, outcome) ==
  /\ tasks' = Put(i, [h EXCEPT !.pc = IF IsErr(outcome) THEN "failed" ELSE "done",
                               !.io = None, !.result = outcome])
  /\ queue' = queue
  /\ IF IsErr(outcome) THEN UNCHANGED <<routeState, writer>>
     ELSE IF /\ h.kind = "revalidate"
             /\ outcome.fs # None
             /\ StartsWith(h.path, outcome.fs[1].dir)
       THEN routeState' = None /\ writer' = 0
     ELSE routeState' = Some(outcome) /\ writer' = i

\* handler i issues a file-system call and waits for it
Await(i, h) ==
  /\ tasks' = Put(i, [h EXCEPT !.io = None])
  /\ UNCHANGED <<routeState, writer, queue>>

\* handler i waits at an await whose promise is settled: its continuation
\* goes last into the microtask queue
Suspend(i, h) ==
  /\ tasks' = Put(i, h)
  /\ queue' = Append(queue, i)
  /\ UNCHANGED <<routeState, writer>>

\* plugin-pacifica.ts:61-66 and 117-137, the part of getRouteState and
\* getRouteStateFromOptions that runs in the caller's step: up to the await
\* of line 71 or 102 on the cached state, to the await of line 66 on a
\* state built from options.routes, or to the first file-system call
GetRouteState(i, h) ==
  IF routeState # None
    THEN Suspend(i, [h EXCEPT !.result = routeState[1]])
  ELSE IF options = "routes"
    THEN Const(getRouteStateFromConfig(StaticConfig), LAMBDA built :
           Suspend(i, [h EXCEPT !.result = built, !.assign = TRUE]))
  ELSE IF options = "routesDir" THEN Await(i, [h EXCEPT !.pc = "statRoot"])
  ELSE Await(i, [h EXCEPT !.pc = "stat"])

\* plugin-pacifica.ts:147-155, readFileTree has returned the tree
TreeRead(i, h) ==
  Settle(i, h,
         getRouteStateFromPath(
           walk(Dir("routes", [k \in 1..Len(h.listing) |-> File(h.listing[k])]), "")))

InitServer ==
  /\ pc = "server"
  /\ tree = Null
  /\ parsed = Null /\ urlPath = None /\ urlSegment = ""
  /\ config = Null /\ manifest = Null
  /\ segments = <<>> /\ match = Null
  /\ left = Null /\ right = Null /\ merged = Null
  /\ received = Null /\ returned = Null
  /\ options \in PluginOptions
  /\ disk \in Disks /\ events = <<>>
  /\ routeState = None /\ tasks = <<>> /\ queue = <<>>
  /\ reads = <<>> /\ writer = 0

\* plugin-pacifica.ts:99-102, a request reaches the middleware
Request ==
  /\ Cardinality(Handlers("request")) < MaxFetches
  /\ Len(tasks) + Len(events) < MaxHandlers
  /\ GetRouteState(Len(tasks) + 1, Handler("request", ""))
  /\ reads' = Append(reads, 0)
  /\ UNCHANGED <<compilerVars, options, disk, events>>

\* another process adds or removes a file of the routes directory.  No code
\* of the plugin runs; the watcher will report the path
DiskChange ==
  /\ Cardinality(Handlers("revalidate")) + Len(events) < MaxEvents
  /\ Len(tasks) + Len(events) < MaxHandlers
  /\ disk.kind = "dir"
  /\ \E f \in SeqToSet(ServerFiles) :
       /\ disk' = DiskDir(IF Entry(disk, f).kind = "file"
                          THEN SeqToSet(readdir(disk)) \ {f}
                          ELSE SeqToSet(readdir(disk)) \cup {f})
       /\ events' = Append(events, RoutesDir \o "/" \o f)
  /\ UNCHANGED <<compilerVars, options, routeState, tasks, queue, reads, writer>>

\* plugin-pacifica.ts:91-97, the watcher reports a change made earlier, in
\* an "add" or "unlink" event, and the listener calls revalidateRoutes with
\* the path.  The changes not yet reported are reported in any order
WatcherEvent ==
  /\ \E k \in 1..Len(events) :
       /\ GetRouteState(Len(tasks) + 1, Handler("revalidate", events[k]))
       /\ events' = [j \in 1..(Len(events) - 1) |->
                       IF j < k THEN events[j] ELSE events[j + 1]]
  /\ reads' = Append(reads, 0)
  /\ UNCHANGED <<compilerVars, options, disk>>

\* the watcher reports a file outside the routes directory
WatcherEventElsewhere ==
  /\ Cardinality(Handlers("revalidate")) + Len(events) < MaxEvents
  /\ Len(tasks) + Len(events) < MaxHandlers
  /\ GetRouteState(Len(tasks) + 1, Handler("revalidate", OtherPath))
  /\ reads' = Append(reads, 0)
  /\ UNCHANGED <<compilerVars, options, disk, events>>

\* the routes directory, empty, is removed or replaced by a regular file;
\* the plugin listens to no event of the watcher for that
RoutesRemoved ==
  /\ disk = DiskDir({})
  /\ disk' \in {Missing("routes"), File("routes")}
  /\ UNCHANGED <<compilerVars, options, events, routeState, tasks, queue, reads, writer>>

\* the pending system call of handler h, as the thread pool runs it on the
\* disk: plugin-pacifica.ts:137 stat(path), file-tree.ts:22 fs.stat(rootPath),
\* file-tree.ts:29 fs.readdir(srcPath), file-tree.ts:45 fs.stat of an entry
SystemCall(h) ==
  IF h.pc = "readdir"
    THEN IF disk.kind = "dir" THEN Ok(readdir(disk))
         ELSE Err(IF disk.kind = "file" THEN "ENOTDIR" ELSE "ENOENT")
  ELSE IF h.pc = "walk" THEN statEntry(disk, h.listing[h.next])
  ELSE stat(disk)

\* the thread pool runs the pending file-system call of a handler: the disk
\* is read now, the result waits for the callback.  No code of the plugin
\* runs
ThreadPool ==
  \E i \in 1..Len(tasks) :
     /\ tasks[i].pc \in {"stat", "statRoot", "readdir", "walk"}
     /\ tasks[i].io = None
     /\ tasks' = [tasks EXCEPT ![i].io = Some(SystemCall(tasks[i]))]
     /\ reads' = IF tasks[i].pc = "readdir" THEN [reads EXCEPT ![i] = Changes] ELSE reads
     /\ UNCHANGED <<compilerVars, options, disk, events, routeState, queue, writer>>

\* plugin-pacifica.ts:137-141, the callback of stat(path)
StatRoutes ==
  \E i \in 1..Len(tasks) :
     /\ tasks[i].pc = "stat"
     /\ tasks[i].io # None
     /\ queue = <<>>
     /\ IF IsErr(tasks[i].io[1]) THEN Settle(i, tasks[i], tasks[i].io[1])
        ELSE IF ~tasks[i].io[1].isDirectory
          THEN Settle(i, tasks[i], Err("routes directory not found"))
        ELSE Await(i, [tasks[i] EXCEPT !.pc = "statRoot"])
     /\ UNCHANGED <<compilerVars, options, disk, events, reads>>

\* file-tree.ts:22-24, the callback of fs.stat(rootPath)
StatRoot ==
  \E i \in 1..Len(tasks) :
     /\ tasks[i].pc = "statRoot"
     /\ tasks[i].io # None
     /\ queue = <<>>
     /\ IF IsErr(tasks[i].io[1]) THEN Settle(i, tasks[i], tasks[i].io[1])
        ELSE IF ~tasks[i].io[1].isDirectory
          THEN Settle(i, tasks[i], Err("not a directory"))
        ELSE Await(i, [tasks[i] EXCEPT !.pc = "readdir"])
     /\ UNCHANGED <<compilerVars, options, disk, events, reads>>

\* file-tree.ts:29-31, the callback of fs.readdir(rootPath)
Readdir ==
  \E i \in 1..Len(tasks) :
     /\ tasks[i].pc = "readdir"
     /\ tasks[i].io # None
     /\ queue = <<>>
     /\ IF IsErr(tasks[i].io[1]) THEN Settle(i, tasks[i], tasks[i].io[1])
        ELSE IF Len(tasks[i].io[1].val) = 0
          THEN TreeRead(i, [tasks[i] EXCEPT !.listing = <<>>])
        ELSE Await(i, [tasks[i] EXCEPT !.pc = "walk", !.listing = tasks[i].io[1].val,
                                       !.next = 1])
     /\ UNCHANGED <<compilerVars, options, disk, events, reads>>

\* file-tree.ts:45-50 and 32-35, the callback of fs.stat of the next listed
\* entry
StatChild ==
  \E i \in 1..Len(tasks) :
     /\ tasks[i].pc = "walk"
     /\ tasks[i].io # None
     /\ queue = <<>>
     /\ IF IsErr(tasks[i].io[1]) THEN Settle(i, tasks[i], tasks[i].io[1])
        ELSE IF tasks[i].next = Len(tasks[i].listing)
          THEN TreeRead(i, tasks[i])
        ELSE Await(i, [tasks[i] EXCEPT !.next = @ + 1])
     /\ UNCHANGED <<compilerVars, options, disk, events, reads>>

\* the first job of the microtask queue runs: the continuation of the
\* handler at its head.
\* plugin-pacifica.ts:66-67 after the await: the state built is assigned and
\* returned, which settles the promise the handler awaits at line 71 or
\* 102, so the handler's continuation goes last into the queue; a rejected
\* promise makes getRouteState and the handler reject.
\* plugin-pacifica.ts:71-79 and 102-112 after the await: the handler ends.
Continue(i, h) ==
  IF h.assign /\ ~IsErr(h.result)
  THEN /\ routeState' = Some(h.result)
       /\ writer' = i
       /\ tasks' = Put(i, [h EXCEPT !.assign = FALSE])
       /\ queue' = Append(Tail(queue), i)
  ELSE /\ Finish(i, h, h.result)
       /\ queue' = Tail(queue)

Microtask ==
  /\ queue # <<>>
  /\ Continue(Head(queue), tasks[Head(queue)])
  /\ UNCHANGED <<compilerVars, options, disk, events, reads>>

NextServer ==
  \/ Request
  \/ DiskChange
  \/ WatcherEvent
  \/ WatcherEventElsewhere
  \/ RoutesRemoved
  \/ Microtask
  \/ ThreadPool
  \/ StatRoutes
  \/ StatRoot
  \/ Readdir
  \/ StatChild

SpecServer == InitServer /\ [][NextServer]_vars

\* ------------------------------------------------------------------------
\* C5  Param path mapping
\* ------------------------------------------------------------------------
ParamNames == {"a", "id", "rest", "a?", ":a"}
ParamExtensions == {"", ".tsx"}

MapsTo(path, seg, param) ==
  /\ urlPath = Some(path)
  /\ urlSegment = seg
  /\ getParamName(parsed) = param

\* C5: for every name, a file or directory named [name] gets path /:name and
\* manifest segment *, [[name]] gets /:name? and ?, [...name] gets /*name and
\* **, a plain name gets /name and the segment name, and param is the name in
\* exactly the three parameter forms.
C5_ParamPathMapping ==
  pc = "segment" =>
    \A n \in ParamNames, e \in ParamExtensions :
      /\ tree.filename = "[" \o n \o "]" \o e => MapsTo("/:" \o n, "*", Some(n))
      /\ tree.filename = "[[" \o n \o "]]" \o e => MapsTo("/:" \o n \o "?", "?", Some(n))
      /\ tree.filename = "[..." \o n \o "]" \o e => MapsTo("/*" \o n, "**", Some(n))
      /\ tree.filename = n \o e => MapsTo("/" \o n, n, None)

\* ------------------------------------------------------------------------
\* C7  Filename grammar
\* The grammar as the specification words it: an opener, a name that runs up
\* to the first "." after the opener, a closer, and the extension.
\* ------------------------------------------------------------------------
\* the name of x when x is  open name close [.ext]
Wrapped(x, open, close) ==
  LET d == FirstIn(x, {"."}, Len(open) + 1)
      stem == SubSeq(x, 1, d - 1)
  IN IF /\ StartsWith(x, open)
        /\ Len(stem) > Len(open) + Len(close)
        /\ EndsWith(stem, close)
     THEN Some(SubSeq(stem, Len(open) + 1, Len(stem) - Len(close)))
     ELSE None

HasParen(x) == \E i \in 1..Len(x) : Ch(x, i) \in {"(", ")"}

\* the intercept prefix a filename starts with, longest first
GrammarIntercept(f) ==
  IF StartsWith(f, "(..)(..)") THEN Some([type |-> "../..", rest |-> SliceFrom(f, 9)])
  ELSE IF StartsWith(f, "(...)") THEN Some([type |-> "...", rest |-> SliceFrom(f, 6)])
  ELSE IF StartsWith(f, "(..)") THEN Some([type |-> "..", rest |-> SliceFrom(f, 5)])
  ELSE IF StartsWith(f, "(.)") THEN Some([type |-> ".", rest |-> SliceFrom(f, 4)])
  ELSE None

\* the name of x when x is  name(group)[.ext]  with name and group free of
\* ".", "(" and ")"
GrammarEscaped(x) ==
  LET d == FirstIn(x, {"."}, 1)
      stem == SubSeq(x, 1, d - 1)
      p == FirstIn(stem, {"("}, 1)
  IN IF /\ p >= 2
        /\ p <= Len(stem) - 2
        /\ EndsWith(stem, ")")
        /\ ~HasParen(SubSeq(stem, 1, p - 1))
        /\ ~HasParen(SubSeq(stem, p + 1, Len(stem) - 1))
     THEN Some(SubSeq(stem, 1, p - 1))
     ELSE None

\* the bare name and extension of x when x is  name[.ext]
GrammarBare(x) ==
  LET d == FirstIn(x, {"."}, 1)
      stem == SubSeq(x, 1, d - 1)
  IN IF stem # "" /\ ~HasParen(stem)
     THEN Some([name |-> stem,
                extension |-> IF d <= Len(x) THEN Some(SliceFrom(x, d)) ELSE None])
     ELSE None

\* what the grammar says of a filename: <<"group" | "slot" | "fallback", name>>,
\* <<"segment", name, paramKind, interceptKind>> or <<"error">>
Grammar(f) ==
  IF Wrapped(f, "(", ")") # None THEN <<"group", Wrapped(f, "(", ")")[1]>>
  ELSE IF Wrapped(f, "@", "") # None THEN <<"slot", Wrapped(f, "@", "")[1]>>
  ELSE IF Wrapped(f, "*", "") # None THEN <<"fallback", Wrapped(f, "*", "")[1]>>
  ELSE
    LET pre == GrammarIntercept(f)
        rest == IF pre # None THEN pre[1].rest ELSE f
        kind == IF pre # None THEN Some(pre[1].type) ELSE None
    IN IF Wrapped(rest, "[[", "]]") # None
         THEN <<"segment", Wrapped(rest, "[[", "]]")[1], Some("optional"), kind>>
       ELSE IF Wrapped(rest, "[", "]") # None
         THEN <<"segment", Wrapped(rest, "[", "]")[1], Some("required"), kind>>
       ELSE IF Wrapped(rest, "[...", "]") # None
         THEN <<"segment", Wrapped(rest, "[...", "]")[1], Some("catch-all"), kind>>
       ELSE IF GrammarEscaped(rest) # None
         THEN <<"segment", GrammarEscaped(rest)[1], None, kind>>
       ELSE IF GrammarBare(rest) # None
         THEN <<"segment", GrammarBare(rest)[1].name, None, kind>>
       ELSE <<"error">>

Recovered(r) ==
  IF IsErr(r) THEN <<"error">>
  ELSE IF r.kind = "segment" THEN <<"segment", r.name, r.param, r.intercept>>
  ELSE <<r.kind, r.name>>

\* C7: first match wins in the order group, slot, fallback, segment; a segment
\* carries the intercept kind of its prefix and, from the rest, the parameter
\* kind, the escaped literal name or the bare name with its extension; a
\* filename of no form raises the invalid-segment error.
C7_FilenameGrammar ==
  (pc = "parsed" /\ ~isLayout(tree)) =>
    /\ Recovered(parsed) = Grammar(tree.filename)
    /\ IsErr(parsed) => parsed.msg = "invalid segment name"
    /\ (parsed.kind = "segment" /\ parsed.param = None /\ GrammarEscaped(tree.filename) = None
          /\ GrammarBare(tree.filename) # None)
         => parsed.extension = GrammarBare(tree.filename)[1].extension

\* ------------------------------------------------------------------------
\* Reading a manifest
\* ------------------------------------------------------------------------
\* route.children[key] of a Node, None when there is no such entry
ChildOf(route, key) ==
  IF route.kind = "node" /\ HasOwn(route.children, key)
  THEN Some(MapGet(route.children, key)) ELSE None

\* the partial of an optional route that is a Page
PartialOf(r) == IF r # None /\ r[1].kind = "page" THEN Some(r[1].partial) ELSE None

\* every Page, Index and Fallback of a manifest, each with the keys that
\* lead to it from the root (through children, slots and intercepts)
RECURSIVE ManifestLeaves(_, _)
ManifestLeaves(route, chain) ==
  LET under(m) == UNION {ManifestLeaves(m[i].val, Append(chain, m[i].key)) :
                           i \in 1..Len(m)}
  IN CASE route.kind = "page" ->
            {[chain |-> chain, kind |-> "page", partial |-> route.partial,
              layouts |-> route.layouts]}
       [] route.kind = "intercept" -> under(route.children)
       [] route.kind = "node" ->
            (IF route.index = None THEN {}
             ELSE {[chain |-> chain, kind |-> "index",
                    partial |-> route.index[1].partial,
                    layouts |-> route.index[1].layouts]})
            \cup {[chain |-> Append(chain, route.fallback[i].key), kind |-> "fallback",
                   partial |-> route.fallback[i].val.partial,
                   layouts |-> route.fallback[i].val.layouts] :
                    i \in 1..Len(route.fallback)}
            \cup under(route.slots)
            \cup under(route.children)

\* ------------------------------------------------------------------------
\* C1  End-to-end scenario
\* ------------------------------------------------------------------------
EndToEndTrees == {readFileTree(d) : d \in EndToEndDirs}

EndToEndCommon ==
  /\ ~IsErr(manifest)
  /\ manifest.kind = "node"
  /\ manifest.index # None
  /\ manifest.index[1].partial = "%.html"
  /\ MapKeys(manifest.children) = {"about", "contact"}
  /\ \A leaf \in ManifestLeaves(manifest, <<>>) : leaf.layouts = <<"_layout.html">>

\* C1 as stated: the scenario compiles to a manifest with index.partial
\* "%.html", children["about"].partial "about.html",
\* children["contact"].partial "contact.html", no key for the group, and
\* layouts ["_layout.html"] on every descendant page and index.
C1_EndToEnd_AsStated ==
  (tree \in EndToEndTrees) =>
    /\ pc = "config" => ~IsErr(config)
    /\ pc = "manifest" =>
         /\ EndToEndCommon
         /\ PartialOf(ChildOf(manifest, "about")) = Some("about.html")
         /\ PartialOf(ChildOf(manifest, "contact")) = Some("contact.html")

\* C1 amended: children["about"] and children["contact"] are Nodes, and the
\* files page.tsx are their children["page"], with partials "about/page.html"
\* and "contact/page.html"; the rest as stated.
C1_EndToEnd ==
  (tree \in EndToEndTrees) =>
    /\ pc = "config" => ~IsErr(config)
    /\ pc = "manifest" =>
         /\ EndToEndCommon
         /\ \A d \in {"about", "contact"} :
              /\ ChildOf(manifest, d)[1].kind = "node"
              /\ ChildOf(manifest, d)[1].index = None
              /\ MapKeys(ChildOf(manifest, d)[1].children) = {"page"}
              /\ PartialOf(ChildOf(ChildOf(manifest, d)[1], "page"))
                   = Some(d \o "/page.html")

C1_Witness ==
  /\ pc = "manifest"
  /\ tree \in EndToEndTrees
  /\ ~IsErr(manifest)
  /\ Cardinality(ManifestLeaves(manifest, <<>>)) = 3

\* ------------------------------------------------------------------------
\* C2  Group collapsing
\* ------------------------------------------------------------------------
\* the directory on disk a tree was read from
RECURSIVE ShapeOf(_)
ShapeOf(t) ==
  IF t.kind = "dir"
  THEN Dir(t.filename, [i \in 1..Len(t.children) |-> ShapeOf(t.children[i])])
  ELSE File(t.filename)

IsGroupDir(entry) == entry.kind = "dir" /\ parseGroupName(entry.name) # None

\* the entries of a directory with every group directory replaced, in place
\* and in order, by its own entries
RECURSIVE Ungroup(_)
Ungroup(kids) ==
  IF Len(kids) = 0 THEN <<>>
  ELSE LET k == Head(kids) IN
       (IF IsGroupDir(k) THEN Ungroup(k.kids)
        ELSE IF k.kind = "dir" THEN <<Dir(k.name, Ungroup(k.kids))>>
        ELSE <<k>>) \o Ungroup(Tail(kids))

RECURSIVE HasGroupDir(_)
HasGroupDir(entry) ==
  /\ entry.kind = "dir"
  /\ \E i \in 1..Len(entry.kids) :
       IsGroupDir(entry.kids[i]) \/ HasGroupDir(entry.kids[i])

RECURSIVE IsDirectory(_)
IsDirectory(entry) ==
  entry.kind = "dir" =>
    /\ HasDistinctNames(entry.kids)
    /\ \A i \in 1..Len(entry.kids) : IsDirectory(entry.kids[i])

Ungrouped(t) == Dir(t.filename, Ungroup(ShapeOf(t).kids))

\* a Route Config with every file path reduced to its filename (a wrapped
\* file lives at another path than the same file placed directly)
RECURSIVE Filenames(_)
Filenames(c) ==
  IF IsErr(c) THEN c
  ELSE IF c.kind = "page" THEN [c EXCEPT !.file = basename(@)]
  ELSE [c EXCEPT !.layout = IF @ = None THEN None ELSE Some(basename(@[1])),
                 !.scripts = [i \in 1..Len(@) |-> basename(@[i])],
                 !.children = [i \in 1..Len(@) |-> Filenames(@[i])]]

\* C2: the Route Config of a tree with entries wrapped in group directories
\* equals the Route Config of the tree with those entries placed directly in
\* the enclosing directory, for every kind of wrapped entry.
C2_GroupCollapsing ==
  (pc = "config" /\ HasGroupDir(ShapeOf(tree)) /\ IsDirectory(Ungrouped(tree))) =>
    Filenames(config) = Filenames(getRouteConfig(readFileTree(Ungrouped(tree))))

\* ------------------------------------------------------------------------
\* C3  Index representation
\* ------------------------------------------------------------------------
\* every directory of a tree, the root included
RECURSIVE TreeDirs(_)
TreeDirs(t) ==
  IF t.kind = "file" THEN {}
  ELSE {t} \cup UNION {TreeDirs(t.children[i]) : i \in 1..Len(t.children)}

\* every Node of a Route Config
RECURSIVE ConfigNodes(_)
ConfigNodes(c) ==
  IF c.kind = "page" THEN {}
  ELSE {c} \cup UNION {ConfigNodes(c.children[i]) : i \in 1..Len(c.children)}

\* every entry of every children list of a Route Config whose file is src,
\* as <<position of its Node, index in children>>
RECURSIVE EntriesOfFile(_, _, _)
EntriesOfFile(c, src, pos) ==
  IF c.kind = "page" THEN {}
  ELSE {<<pos, i>> : i \in {j \in 1..Len(c.children) :
                               /\ c.children[j].kind = "page"
                               /\ c.children[j].file = src}}
       \cup UNION {EntriesOfFile(c.children[i], src, Append(pos, i)) :
                     i \in 1..Len(c.children)}

\* the files of a directory whose parsed name is the plain segment `index`
PlainIndexFiles(dir) ==
  {f \in SeqToSet(dir.children) :
     /\ f.kind = "file"
     /\ ~isLayout(f)
     /\ ~IsErr(parseRouteName(f))
     /\ parseRouteName(f).kind = "segment"
     /\ parseRouteName(f).name = "index"
     /\ parseRouteName(f).param = None}

DirKind(dir) == IF dir.src = "" THEN "root" ELSE parseRouteName(dir).kind

DirPath(dir) == IF dir.src = "" THEN "/" ELSE getRoutePath(parseRouteName(dir))[1]

SyntheticIndex(f) ==
  [kind |-> "page", intercept |-> None, path |-> "/", param |-> None, file |-> f.src]

\* the index file f of directory dir is the front entry of dir's Node and
\* occurs nowhere else
IndexAtFront(dir, f) ==
  /\ \E n \in ConfigNodes(config) :
       /\ n.path = DirPath(dir)
       /\ Len(n.children) >= 1
       /\ n.children[1] = SyntheticIndex(f)
  /\ Cardinality(EntriesOfFile(config, f.src, <<>>)) = 1

\* C3: for the root, every segment directory (plain, parameter or
\* intercept) and every slot directory that directly contains an index file,
\* the Node's children[0] is the synthetic Page {path "/", file} and the
\* file yields no other entry in children.
C3_IndexRepresentation ==
  (pc = "config" /\ ~IsErr(config)) =>
    \A dir \in TreeDirs(tree) :
      DirKind(dir) \in {"root", "segment", "slot"} =>
        \A f \in PlainIndexFiles(dir) : IndexAtFront(dir, f)

\* ------------------------------------------------------------------------
\* C4  Index uniqueness
\* ------------------------------------------------------------------------
\* the index candidates of a directory as the specification defines them: a
\* file whose parsed name is a plain (non-parameter) segment named `index`,
\* or a group-classified file
IndexCandidates(dir) ==
  {f \in SeqToSet(dir.children) :
     /\ f.kind = "file"
     /\ ~IsErr(parseRouteName(f))
     /\ \/ parseRouteName(f).kind = "group"
        \/ /\ parseRouteName(f).kind = "segment"
           /\ parseRouteName(f).name = "index"
           /\ parseRouteName(f).param = None}

HasManyIndexCandidates ==
  \E dir \in TreeDirs(tree) : Cardinality(IndexCandidates(dir)) > 1

\* C4: getRouteConfig fails with `multiple index routes` whenever some
\* directory, of any kind, directly contains more than one index candidate,
\* and never fails with that error when every directory contains at most one.
C4_IndexUniqueness ==
  pc = "config" =>
    (HasManyIndexCandidates <=> config = Err("multiple index routes"))

\* ------------------------------------------------------------------------
\* C6  Intercept base computation
\* ------------------------------------------------------------------------
\* s without its last n entries, the empty list when s is not longer than n
DropLast(s, n) == IF Len(s) <= n THEN <<>> ELSE SubSeq(s, 1, Len(s) - n)

\* the base the specification prescribes for an intercept of the given type
\* under the given accumulated segments
ExpectedBase(type, enclosing) ==
  LET visible == SelectSeq(enclosing, LAMBDA x : Head(x) # "@") IN
  CASE type = "." -> visible
    [] type = ".." -> DropLast(visible, 1)
    [] type = "../.." -> DropLast(visible, 2)
    [] type = "..." -> <<>>

\* every node or page of a route config that has an intercept type, with the
\* segments of its enclosing directories and the chain of keys to its place
RECURSIVE ConfigIntercepts(_, _)
ConfigIntercepts(cfg, enclosing) ==
  LET seg == getSegmentFromPath(cfg.path)
      own == IF cfg.intercept = None THEN {}
             ELSE {[chain |-> Append(enclosing, seg),
                    type |-> cfg.intercept[1],
                    enclosing |-> enclosing]}
      inside == IF seg = "/" THEN enclosing ELSE Append(enclosing, seg)
  IN IF cfg.kind = "page" THEN own
     ELSE own \cup UNION {ConfigIntercepts(cfg.children[i], inside) :
                            i \in 1..Len(cfg.children)}

\* the route a chain of keys leads to in a manifest: a key starting with `@`
\* is looked up in slots, any other key in children, and an Intercept on the
\* way is entered through its single child
RECURSIVE RouteAt(_, _)
RouteAt(route, chain) ==
  IF chain = <<>> THEN Some(route)
  ELSE LET inner == IF route.kind = "intercept" THEN route.children[1].val ELSE route
           entries == IF inner.kind # "node" THEN <<>>
                      ELSE IF Head(Head(chain)) = "@" THEN inner.slots
                      ELSE inner.children
       IN IF HasOwn(entries, Head(chain))
          THEN RouteAt(MapGet(entries, Head(chain)), Tail(chain))
          ELSE None

\* C6: for every config node or page with an intercept type, the manifest
\* route built for it (found at its place in the manifest) is an Intercept
\* whose base is the accumulated segments of its enclosing directories
\* without the segments starting with `@`, less 0, 1 or 2 trailing entries
\* for same-level, one-up and two-up, and empty for root.
C6_InterceptBase ==
  (pc = "manifest" /\ ~IsErr(manifest)) =>
    \A e \in ConfigIntercepts(config, <<>>) :
      RouteAt(manifest, e.chain) # None =>
        /\ RouteAt(manifest, e.chain)[1].kind = "intercept"
        /\ RouteAt(manifest, e.chain)[1].base = ExpectedBase(e.type, e.enclosing)

\* a two-up intercept under a slot directory whose base lost the slot
\* segment and trailing entries
C6_Witness ==
  /\ pc = "manifest"
  /\ ~IsErr(manifest)
  /\ \E e \in ConfigIntercepts(config, <<>>) :
       /\ e.type = "../.."
       /\ e.enclosing = <<"feed", "@modal", "post">>
       /\ RouteAt(manifest, e.chain) # None
       /\ RouteAt(manifest, e.chain)[1].kind = "intercept"
       /\ RouteAt(manifest, e.chain)[1].base = <<>>

\* ------------------------------------------------------------------------
\* C8  matchRoute addresses routes by exact segment chain
\* ------------------------------------------------------------------------
\* the route a segment list addresses: the root for its own segment, then
\* children[segment] for each further segment; None when there is none
RECURSIVE Addressed(_, _)
Addressed(route, segs) ==
  IF Len(segs) = 0 THEN None
  ELSE IF route.kind \notin {"page", "node"} THEN Some(route)
  ELSE IF route.segment # Head(segs) THEN None
  ELSE IF Len(segs) = 1 THEN Some(route)
  ELSE IF route.kind = "node" /\ HasOwn(route.children, segs[2])
       THEN Addressed(MapGet(route.children, segs[2]), Tail(segs))
  ELSE None

\* C8: matchRoute returns the Page the segments address, the index of the
\* Node they address, and absent when they address no route; it fails with
\* the not-implemented error only when the addressed route is itself a
\* Public or Intercept route.
C8_MatchByChain ==
  pc = "matched" =>
    LET target == Addressed(manifest, segments) IN
    IF target = None THEN match = Ok(None)
    ELSE IF target[1].kind = "page" THEN match = Ok(target)
    ELSE IF target[1].kind = "node" THEN match = Ok(target[1].index)
    ELSE match = Err("todo")

\* ------------------------------------------------------------------------
\* C9  Merge of children is right-overwriting
\* ------------------------------------------------------------------------
\* the keys of both arguments, read before the call
CollidingKeys == MapKeys(left.children) \cap MapKeys(right.children)

\* C9: a call that merges left and right and returns leaves in the merged
\* children exactly the keys of both arguments, a key of both mapped to
\* right's child and a key of one argument to that argument's child; and the
\* call fails when a colliding key holds a Page on either side, since the two
\* colliding children are still merged recursively.  (left is read before
\* the call: the call writes the merged entries into left's own maps.)
C9_RightOverwrites ==
  [][(pc = "merge" /\ pc' = "merged") =>
       /\ ~IsErr(merged') =>
            /\ MapKeys(merged'.children)
                 = MapKeys(left.children) \cup MapKeys(right.children)
            /\ \A k \in MapKeys(right.children) :
                 MapGet(merged'.children, k) = MapGet(right.children, k)
            /\ \A k \in MapKeys(left.children) \ MapKeys(right.children) :
                 MapGet(merged'.children, k) = MapGet(left.children, k)
       /\ (\E k \in CollidingKeys :
             \/ MapGet(left.children, k).kind = "page"
             \/ MapGet(right.children, k).kind = "page") => IsErr(merged')]_vars

\* the state after a successful merge of some node l with right, where a
\* colliding key held under l a page that right's child does not have, and
\* l had a key of its own
C9_Witness ==
  /\ pc = "merged"
  /\ ~IsErr(merged)
  /\ \E l \in MergeNodes :
       /\ mergeManifestRoutes(l, right) = merged
       /\ mergeInPlace(l, right).left = left
       /\ \E k \in MapKeys(l.children) \cap MapKeys(right.children) :
            /\ ManifestLeaves(MapGet(l.children, k), <<>>)
                 \ ManifestLeaves(MapGet(right.children, k), <<>>) # {}
            /\ MapGet(merged.children, k) = MapGet(right.children, k)
            /\ MapGet(left.children, k) = MapGet(right.children, k)
       /\ MapKeys(l.children) \ MapKeys(right.children) # {}

\* ------------------------------------------------------------------------
\* C10  No route is silently lost
\* ------------------------------------------------------------------------
\* every Page of a route config with the place the manifest owes it: the
\* keys that lead to it (an Intercept holds its route under the route's own
\* key), its kind of entry, and its partial path under the segments of its
\* enclosing directories
RECURSIVE ConfigPages(_, _, _)
ConfigPages(cfg, chain, enclosing) ==
  LET seg == getSegmentFromPath(cfg.path)
      keys == IF cfg.intercept = None THEN <<seg>> ELSE <<seg, seg>>
  IN IF cfg.kind = "page"
     THEN IF seg = "/"
          THEN {[chain |-> chain, kind |-> "index",
                 partial |-> Join(Append(enclosing, "%.html"), "/")]}
          ELSE {[chain |-> chain \o (IF Head(seg) = "^" THEN <<seg>> ELSE keys),
                 kind |-> IF Head(seg) = "^" THEN "fallback" ELSE "page",
                 partial |-> Join(Append(enclosing, seg \o ".html"), "/")]}
     ELSE UNION {ConfigPages(cfg.children[i],
                             IF seg = "/" THEN chain ELSE chain \o keys,
                             IF seg = "/" THEN enclosing ELSE Append(enclosing, seg)) :
                   i \in 1..Len(cfg.children)}

ManifestPlaces ==
  {[chain |-> leaf.chain, kind |-> leaf.kind, partial |-> leaf.partial] :
     leaf \in ManifestLeaves(manifest, <<>>)}

\* C10: whenever getManifestRoutes succeeds, every Page of the route config
\* has a Page, Index or Fallback entry in the manifest at its segment chain
\* with its partial path.
C10_NoRouteLost ==
  (pc = "manifest" /\ ~IsErr(manifest)) =>
    ConfigPages(config, <<>>, <<>>) \subseteq ManifestPlaces

\* ------------------------------------------------------------------------
\* C11  Merge failure conditions
\* ------------------------------------------------------------------------
\* the map of the manifest node a config child goes to, and its key there
MapOf(c) ==
  IF c.path = "/" THEN "index"
  ELSE IF Head(getSegmentFromPath(c.path)) = "^" THEN "fallback"
  ELSE IF Head(getSegmentFromPath(c.path)) = "@" THEN "slots"
  ELSE "children"

KeysIn(c, map) ==
  IF c.kind = "page" THEN {}
  ELSE {getSegmentFromPath(c.children[i].path) :
          i \in {j \in 1..Len(c.children) : MapOf(c.children[j]) = map}}

\* two config entries whose built routes cannot be merged: one is built as
\* a Page or an Intercept, the segments differ, both define an index, a
\* fallback key or a slot key is on both sides, or two of their children of
\* one children key cannot be merged
RECURSIVE CannotMerge(_, _)
CannotMerge(x, y) ==
  \/ x.kind = "page" \/ y.kind = "page"
  \/ x.intercept # None \/ y.intercept # None
  \/ getSegmentFromPath(x.path) # getSegmentFromPath(y.path)
  \/ KeysIn(x, "index") # {} /\ KeysIn(y, "index") # {}
  \/ KeysIn(x, "fallback") \cap KeysIn(y, "fallback") # {}
  \/ KeysIn(x, "slots") \cap KeysIn(y, "slots") # {}
  \/ \E i \in 1..Len(x.children), j \in 1..Len(y.children) :
       /\ MapOf(x.children[i]) = "children"
       /\ MapOf(y.children[j]) = "children"
       /\ x.children[i].path = y.children[j].path
       /\ CannotMerge(x.children[i], y.children[j])

\* some node of the config has two children of one slots or children key
\* that cannot be merged
HasFatalCollision ==
  \E n \in ConfigNodes(config) :
    \E i, j \in 1..Len(n.children) :
      /\ i < j
      /\ MapOf(n.children[i]) \in {"slots", "children"}
      /\ getSegmentFromPath(n.children[i].path) = getSegmentFromPath(n.children[j].path)
      /\ CannotMerge(n.children[i], n.children[j])

\* C11: when two children of one config node resolve to one key of the
\* slots or children map and either is built as a Page or an Intercept,
\* both define an index, their fallback or slots maps share a key, or two
\* of their own children collide in one of these ways, getManifestRoutes
\* fails and returns no manifest.
C11_MergeFailures ==
  (pc = "manifest" /\ HasFatalCollision) => IsErr(manifest)

\* a build that failed on two directories of one key that both hold a slot
\* of one name
C11_Witness ==
  /\ pc = "manifest"
  /\ HasFatalCollision
  /\ manifest = Err("cannot merge slot routes")

\* ------------------------------------------------------------------------
\* C12  Layout chain invariant
\* ------------------------------------------------------------------------
\* a file name up to its first dot
UpToDot(name) == SubSeq(name, 1, FirstIn(name, {"."}, 1) - 1)

\* layouts with the layout path of a node added when it declares one
WithLayout(layouts, cfg, inside) ==
  IF cfg.layout = None THEN layouts
  ELSE LET layout == Join(Append(inside, UpToDot(basename(cfg.layout[1])) \o ".html"), "/")
       IN IF Includes(layouts, layout) THEN layouts ELSE Append(layouts, layout)

\* every Page of a route config with its place in the manifest (as in
\* ConfigPages) and the layout paths declared by its enclosing nodes, from
\* the root down
RECURSIVE ConfigLayouts(_, _, _, _)
ConfigLayouts(cfg, chain, enclosing, layouts) ==
  LET seg == getSegmentFromPath(cfg.path)
      keys == IF cfg.intercept = None THEN <<seg>> ELSE <<seg, seg>>
      inside == IF seg = "/" THEN enclosing ELSE Append(enclosing, seg)
  IN IF cfg.kind = "page"
     THEN IF seg = "/"
          THEN {[chain |-> chain, kind |-> "index", layouts |-> layouts]}
          ELSE {[chain |-> chain \o (IF Head(seg) = "^" THEN <<seg>> ELSE keys),
                 kind |-> IF Head(seg) = "^" THEN "fallback" ELSE "page",
                 layouts |-> layouts]}
     ELSE UNION {ConfigLayouts(cfg.children[i],
                               IF seg = "/" THEN chain ELSE chain \o keys,
                               inside,
                               WithLayout(layouts, cfg, inside)) :
                   i \in 1..Len(cfg.children)}

\* C12: in every manifest returned by getManifestRoutes, the layouts of each
\* Page, Index and Fallback are exactly the layout paths
\* <accumulated segments>/<layout basename up to its first dot>.html of the
\* enclosing config nodes that declare a layout, from the root down, without
\* duplicates; a route under no such node has an empty list.
C12_LayoutChain ==
  (pc = "manifest" /\ ~IsErr(manifest)) =>
    \A leaf \in ManifestLeaves(manifest, <<>>) :
      LET sources == {p \in ConfigLayouts(config, <<>>, <<>>, <<>>) :
                        p.chain = leaf.chain /\ p.kind = leaf.kind}
      IN /\ sources # {}
         /\ \A p \in sources : leaf.layouts = p.layouts

\* a manifest with routes under two nested layouts, routes of a sibling
\* directory under the root layout only, and merged directories of which
\* only one declares a layout
C12_Witness ==
  /\ pc = "manifest"
  /\ ~IsErr(manifest)
  /\ \E x, y, z \in ManifestLeaves(manifest, <<>>) :
       /\ x.chain = <<"a", "b", "^e">>
       /\ x.layouts = <<"_app.html", "a/_base.html", "a/b/_layout.html">>
       /\ y.chain = <<"a", "q">> /\ y.layouts = <<"_app.html">>
       /\ z.chain = <<"z">> /\ z.layouts = <<"_app.html">>

\* ------------------------------------------------------------------------
\* C13  Route State isolation
\* ------------------------------------------------------------------------
\* C13: building the manifest of a config entry never changes the segments
\* or layouts of the Route State the call received: read after the call
\* returned, the state is as it was before the call, for the root node and
\* for the children of the root.
C13_StateIsolation ==
  (pc \in {"manifest", "child"} /\ returned # Null) => returned = received

\* ------------------------------------------------------------------------
\* C14  No stale cached manifest
\* ------------------------------------------------------------------------
\* every change of the routes directory was reported by the watcher, and
\* every request and every revalidateRoutes handler has completed
AllDone ==
  /\ events = <<>>
  /\ \A i \in 1..Len(tasks) : tasks[i].pc \in {"done", "failed"}

\* C14: once the watcher has reported every change and every request and
\* every revalidateRoutes handler has completed, the cached route state is
\* empty or, when it was compiled from a file tree, that tree was read after
\* the last file was added to or removed from the routes directory.  (A tree
\* read after the last add or unlink event was read after the change that
\* event reports; a tree read before a change was read before its event.)
C14_NoStaleCache ==
  (AllDone /\ routeState # None /\ routeState[1].fs # None)
    => reads[writer] = Changes

====
